---- MODULE Spec2Model ----
(***************************************************************************)
(* Model of the IATF index/rebuild/validate engine (src/python/iatf.py).   *)
(*                                                                         *)
(* A document is a sequence of lines.  A line is a record that keeps what  *)
(* the code looks at: which prefix / exact text it has (field k), and the  *)
(* payload the regular expressions capture (id, numbers, title, ...).     *)
(* Positions are 1-indexed as in the file; where the code uses a 0-indexed *)
(* Python index i, the model uses the same number i and reads lines[i+1].  *)
(***************************************************************************)
EXTENDS Integers, Sequences, FiniteSets, TLC

VARIABLES
    file,     \* the document on disk: its lines (content.split("\n"))
    today,    \* the calendar day, datetime.now().date()
    last,     \* the last command run on the document and what it returned and printed
    since,    \* history: whether the file is the output of a successful rebuild, the
              \* day of that rebuild, the CONTENT region it left, and the ids of the
              \* sections whose body was edited since
    watch     \* the watch registry ~/.iatf/watch.json, the processes running
              \* iatf watch, and the last thing one of them or a command did with it

vars == <<file, today, last, since, watch>>

----------------------------------------------------------------------------
(* Bounds *)

MaxBlank == 2     \* blank lines before ===INDEX=== / between header and CONTENT
MaxDay == 2       \* calendar days 1..MaxDay
MaxSec == 1       \* second-of-day stamps 0..MaxSec of the Generated comment

----------------------------------------------------------------------------
(* Lines *)

NoSeq == <<>>

Ln(k, id, t, s, r, lv, a, b, w) ==
    [k |-> k, id |-> id, t |-> t, s |-> s, r |-> r, lv |-> lv, a |-> a, b |-> b, w |-> w]

Decl == Ln("decl", "", "", NoSeq, NoSeq, 0, 0, 0, 1)            \* :::IATF
Meta == Ln("meta", "", "", NoSeq, NoSeq, 0, 0, 0, 2)            \* @title: ... (file header)
Blank == Ln("blank", "", "", NoSeq, NoSeq, 0, 0, 0, 0)          \* empty line
IndexMarker == Ln("INDEX", "", "", NoSeq, NoSeq, 0, 0, 0, 1)    \* ===INDEX===
ContentMarker == Ln("CONTENT", "", "", NoSeq, NoSeq, 0, 0, 0, 1)\* ===CONTENT===
Junk == Ln("junk", "", "", NoSeq, NoSeq, 0, 0, 0, 1)            \* any other text in the INDEX region
Open(id) == Ln("open", id, "", NoSeq, NoSeq, 0, 0, 0, 1)        \* {#id}
Close(id) == Ln("close", id, "", NoSeq, NoSeq, 0, 0, 0, 1)      \* {/id}
ASummary(s) == Ln("asum", "", "", s, NoSeq, 0, 0, 0, 1 + Len(s))\* @summary: s
ACreated == Ln("acreated", "", "", NoSeq, NoSeq, 0, 0, 0, 2)    \* @created: d
AOther == Ln("aother", "", "", NoSeq, NoSeq, 0, 0, 0, 2)        \* @anything else
Cont(t) == Ln("cont", "", t, NoSeq, NoSeq, 0, 0, 0, 1)          \* indented text
Heading(t) == Ln("head", "", t, NoSeq, NoSeq, 0, 0, 0, 2)          \* # t
Fence == Ln("fence", "", "", NoSeq, NoSeq, 0, 0, 0, 1)          \* ```
FenceLang == Ln("fencelang", "", "", NoSeq, NoSeq, 0, 0, 0, 1)  \* ```python
Text(v) == Ln("text", "", "", NoSeq, NoSeq, 0, v, 0, v)         \* body text, variant v, v words
Ref(r) == Ln("text", "", "", NoSeq, r, 0, 0, 0, 1 + Len(r))     \* body text with {@id} markers

(* line.strip() == "" *)
IsBlank(line) == line.k = "blank"

(* line.startswith("@") *)
StartsWithAt(line) == line.k \in {"meta", "asum", "acreated", "aother"}

(* line.startswith((" ", "\t")) *)
StartsWithSpace(line) == line.k \in {"cont", "istamp", "ihash"}

(* line.startswith("#") *)
StartsWithHash(line) == line.k \in {"head", "ientry"}

(* title.startswith("#"): a title that still begins with '#' after        *)
(* lstrip("#").strip(), as "# #x" gives.                                   *)
HashTitles == {"#T"}

TitleStartsWithHash(t) == t \in HashTitles

----------------------------------------------------------------------------
(* Sequence helpers *)

RECURSIVE Repeat(_, _)
Repeat(x, n) == IF n = 0 THEN <<>> ELSE <<x>> \o Repeat(x, n - 1)

Drop(s, n) == SubSeq(s, n + 1, Len(s))

Take(s, n) == SubSeq(s, 1, n)

Last(s) == s[Len(s)]

Front(s) == SubSeq(s, 1, Len(s) - 1)

(* the indices i (0-indexed, as enumerate gives) at which the line is the marker k *)
Positions(lines, k) == {i \in 0..(Len(lines) - 1) : lines[i + 1].k = k}

Min(S) == CHOOSE x \in S : \A y \in S : x <= y

Max(S) == CHOOSE x \in S : \A y \in S : x >= y

----------------------------------------------------------------------------
(* IATFSection.__init__ *)

IATFSection(section_id, title, start_line) ==
    [id |-> section_id, title |-> title, start_line |-> start_line, end_line |-> 0,
     level |-> 1, summary |-> NoSeq, created |-> 0, modified |-> 0, x_hash |-> -1,
     word_count |-> 0, in_header |-> TRUE, summary_continuation |-> FALSE,
     content_lines |-> NoSeq]

(* One iteration of the loop of parse_content_section on the line at 1-indexed *)
(* position p.  st.sections is the list built so far, st.stack the indices    *)
(* into it of the open sections (the code's stack holds the objects).          *)
ParseLine(st, line, p) ==
    LET secs == st.sections
        stk == st.stack
        top == IF stk = <<>> THEN 0 ELSE Last(stk)
        inHeader == stk # <<>> /\ secs[top].in_header
        \* the header block, for a line that does not `continue` out of it
        leaveHeader == IF inHeader
                       THEN [secs EXCEPT ![top].in_header = FALSE,
                                         ![top].summary_continuation = FALSE]
                       ELSE secs
    IN  IF line.k = "open"
        THEN [sections |-> Append(secs, [IATFSection(line.id, line.id, p)
                                            EXCEPT !.level = Len(stk) + 1]),
              stack |-> Append(stk, Len(secs) + 1)]
        ELSE IF inHeader /\ StartsWithAt(line)
        THEN [st EXCEPT !.sections =
                 IF line.k = "asum"
                 THEN [secs EXCEPT ![top].summary = line.s,
                                   ![top].summary_continuation = TRUE]
                 ELSE IF line.k = "acreated"
                 THEN [secs EXCEPT ![top].summary_continuation = FALSE]
                 ELSE secs]
        ELSE IF inHeader /\ StartsWithSpace(line) /\ secs[top].summary_continuation
        THEN [st EXCEPT !.sections[top].summary = Append(secs[top].summary, line.t)]
        ELSE IF line.k = "close"
        THEN IF stk # <<>> /\ leaveHeader[top].id = line.id
             THEN [sections |-> [leaveHeader EXCEPT ![top].end_line = p],
                   stack |-> Front(stk)]
             ELSE [st EXCEPT !.sections = leaveHeader]
        ELSE IF stk # <<>>
        THEN [st EXCEPT !.sections =
                 [leaveHeader EXCEPT
                    ![top].title = IF StartsWithHash(line) /\ ~TitleStartsWithHash(@)
                                   THEN line.t ELSE @,
                    ![top].content_lines = Append(@, line)]]
        ELSE st

RECURSIVE ParseFrom(_, _, _)
ParseFrom(st, lines, p) ==
    IF p > Len(lines) THEN st
    ELSE ParseFrom(ParseLine(st, lines[p], p), lines, p + 1)

(* a parser that returns the sections last-opened first *)
ParseContentReversed(lines, content_start) ==
    LET sections == ParseFrom([sections |-> <<>>, stack |-> <<>>], lines,
                              content_start + 1).sections
    IN  [i \in 1..Len(sections) |-> sections[Len(sections) + 1 - i]]

(* a parser that gives a section the lines of the sections nested in it too *)
ParseContentInclusive(lines, content_start) ==
    LET sections == ParseFrom([sections |-> <<>>, stack |-> <<>>], lines,
                              content_start + 1).sections
    IN  [i \in 1..Len(sections) |->
            [sections[i] EXCEPT
                !.content_lines =
                    SelectSeq(SubSeq(lines, sections[i].start_line + 1,
                                     sections[i].end_line - 1),
                              LAMBDA l : l.k \notin {"open", "close", "asum", "acreated",
                                                     "aother"})]]

(* parse_content_section(lines, content_start) *)
parse_content_section(lines, content_start) ==
    ParseFrom([sections |-> <<>>, stack |-> <<>>], lines, content_start + 1).sections

(* validate_nesting: "" for None, else the error *)
NoError == [msg |-> "", id |-> ""]

RECURSIVE NestingFrom(_, _, _)
NestingFrom(open_sections, lines, p) ==
    IF p > Len(lines)
    THEN IF open_sections # <<>>
         THEN [msg |-> "Unclosed section", id |-> Last(open_sections)]
         ELSE NoError
    ELSE LET line == lines[p]
         IN  IF line.k = "open"
             THEN NestingFrom(Append(open_sections, line.id), lines, p + 1)
             ELSE IF line.k = "close"
             THEN IF open_sections # <<>> /\ Last(open_sections) = line.id
                  THEN NestingFrom(Front(open_sections), lines, p + 1)
                  ELSE [msg |-> "Closing tag without matching opening", id |-> line.id]
             ELSE NestingFrom(open_sections, lines, p + 1)

(* a nesting check that stops at the last line without looking at what is open *)
ValidateNestingClosesOnly(lines, content_start) ==
    LET e == NestingFrom(<<>>, lines, content_start + 1)
    IN  IF e.msg = "Unclosed section" THEN NoError ELSE e

validate_nesting(lines, content_start) == NestingFrom(<<>>, lines, content_start + 1)

----------------------------------------------------------------------------
(* References *)

(* Strings of the model, in Python's string order among the ids. *)
Names == <<"a", "b", "c", "d", "e", "f", "g", "z", "T1", "T2", "#T", "S1", "C1",
           "OK", "BOOK">>

StrCode(x) == IF x = "" THEN 0 ELSE CHOOSE i \in 1..Len(Names) : Names[i] = x

(* list.sort() of (line_num, target, containing_section or "") tuples *)
RefLess(x, y) ==
    \/ x.line < y.line
    \/ x.line = y.line /\ StrCode(x.target) < StrCode(y.target)
    \/ x.line = y.line /\ x.target = y.target
          /\ StrCode(x.containing) < StrCode(y.containing)

RECURSIVE InsertSorted(_, _)
InsertSorted(x, sorted) ==
    IF sorted = <<>> THEN <<x>>
    ELSE IF RefLess(x, sorted[1]) THEN <<x>> \o sorted
    ELSE <<sorted[1]>> \o InsertSorted(x, Tail(sorted))

RECURSIVE SortRefs(_)
SortRefs(refs) ==
    IF refs = <<>> THEN <<>> ELSE InsertSorted(refs[Len(refs)], SortRefs(Front(refs)))

(* the ref_pattern.finditer loop over one line *)
LineRefs(line, p, open_sections) ==
    [j \in 1..Len(line.r) |->
        [line |-> p, target |-> line.r[j],
         containing |-> IF open_sections # <<>> THEN Last(open_sections) ELSE ""]]

(* a fence test that takes every line starting with ``` for a fence *)
IsCodeFencePrefix(line) == line.k \in {"fence", "fencelang"}

(* is_code_fence_line *)
is_code_fence_line(line) == line.k = "fence"

RECURSIVE RefsFrom(_, _, _, _, _)
RefsFrom(acc, open_sections, in_code_fence, lines, p) ==
    IF p > Len(lines) THEN acc
    ELSE LET line == lines[p]
         IN  IF in_code_fence
             THEN RefsFrom(acc, open_sections, ~is_code_fence_line(line), lines, p + 1)
             ELSE IF is_code_fence_line(line)
             THEN RefsFrom(acc, open_sections, TRUE, lines, p + 1)
             ELSE IF line.k = "open"
             THEN RefsFrom(acc, Append(open_sections, line.id), FALSE, lines, p + 1)
             ELSE IF line.k = "close"
             THEN RefsFrom(acc,
                           IF open_sections # <<>> /\ Last(open_sections) = line.id
                           THEN Front(open_sections) ELSE <<>>,
                           FALSE, lines, p + 1)
             ELSE RefsFrom(acc \o LineRefs(line, p, open_sections),
                           open_sections, FALSE, lines, p + 1)

(* extract_references: the occurrences (line, target, containing section or "" *)
(* for None) in scan order; the code groups them by target in a dict.          *)
extract_references(lines, content_start) ==
    RefsFrom(<<>>, <<>>, FALSE, lines, content_start + 1)

Err(msg, id, line) == [msg |-> msg, id |-> id, line |-> line]

RECURSIVE RefErrors(_, _)
RefErrors(ordered_refs, valid_ids) ==
    IF ordered_refs = <<>> THEN <<>>
    ELSE LET x == ordered_refs[1]
             rest == RefErrors(Tail(ordered_refs), valid_ids)
         IN  IF x.target \notin valid_ids
             THEN <<Err("target section does not exist", x.target, x.line)>> \o rest
             ELSE IF x.target = x.containing
             THEN <<Err("self-reference not allowed", x.target, x.line)>> \o rest
             ELSE rest

(* validate_references(lines, content_start, sections) *)
validate_references(lines, content_start, sections) ==
    RefErrors(SortRefs(extract_references(lines, content_start)),
              {sections[i].id : i \in 1..Len(sections)})

(* find_duplicate_section_ids: each id once, at its second occurrence *)
find_duplicate_section_ids(sections) ==
    LET second == {i \in 1..Len(sections) :
                      Cardinality({j \in 1..i : sections[j].id = sections[i].id}) = 2}
        RECURSIVE Pick(_)
        Pick(i) == IF i > Len(sections) THEN <<>>
                   ELSE (IF i \in second THEN <<sections[i].id>> ELSE <<>>) \o Pick(i + 1)
    IN  Pick(1)

----------------------------------------------------------------------------
(* Hashes and word counts *)

HashLen == 7   \* hex characters kept of the SHA-256 digest

HashMod == 16 ^ HashLen

KindNames == <<"blank", "text", "head", "cont", "fence", "asum", "acreated", "aother",
               "open", "close", "meta", "decl", "INDEX", "CONTENT", "junk",
               "cauto", "cgen", "chash", "ientry", "isum", "istamp", "ihash",
               "fencelang">>

KindCode(k) == CHOOSE i \in 1..Len(KindNames) : KindNames[i] = k

(* one absorbing step of the digest, within 32-bit arithmetic *)
Mix(h, x) == ((h % 65536) * 16381 + (h \div 65536) * 7 + x + 1) % HashMod

RECURSIVE StrsCode(_)
StrsCode(strs) == IF strs = <<>> THEN 0 ELSE StrsCode(Tail(strs)) * 16 + StrCode(strs[1])

(* the text of a line, as a number *)
LineCode(line) ==
    Mix(Mix(KindCode(line.k) * 4096 + StrCode(line.id) * 256 + StrCode(line.t) * 16 + line.lv,
            StrsCode(line.s) * 4096 + StrsCode(line.r)),
        line.a * 64 + line.b)

RECURSIVE ShaUpTo(_, _)
ShaUpTo(lines, n) == IF n = 0 THEN 7 ELSE Mix(ShaUpTo(lines, n - 1), LineCode(lines[n]))

(* a digest that does not depend on the text *)
Sha256Blind(lines) == 7

(* hashlib.sha256("\n".join(lines)).hexdigest()[:7]: a digest of the lines, *)
(* kept to HashLen hex characters.                                           *)
Sha256Hex7(lines) == ShaUpTo(lines, Len(lines))

(* compute_content_hash *)
compute_content_hash(content_lines) == Sha256Hex7(content_lines)

(* count_words: whitespace tokens of " ".join(content_lines) *)
RECURSIVE WordsUpTo(_, _)
WordsUpTo(content_lines, n) ==
    IF n = 0 THEN 0 ELSE WordsUpTo(content_lines, n - 1) + content_lines[n].w

count_words(content_lines) == WordsUpTo(content_lines, Len(content_lines))

----------------------------------------------------------------------------
(* INDEX lines *)

CAuto == Ln("cauto", "", "", NoSeq, NoSeq, 0, 0, 0, 7)   \* <!-- AUTO-GENERATED ... -->
CGen(day, sec) == Ln("cgen", "", "", NoSeq, NoSeq, 0, 0, sec, 4)  \* <!-- Generated: ts -->
CHash(h) == Ln("chash", "", "", NoSeq, NoSeq, HashLen, h, 0, 4)  \* <!-- Content-Hash: sha256:h -->
IEntry(lv, t, id, a, b, w) == Ln("ientry", id, t, NoSeq, NoSeq, lv, a, b, w)
                                          \* #..# t {#id | lines:a-b | words:w}
ISummary(s) == Ln("isum", "", "", s, NoSeq, 0, 0, 0, 1 + Len(s))    \* > s
IStamp(c, m) == Ln("istamp", "", "", NoSeq, NoSeq, 0, c, m, 4)  \*   Created: c | Modified: m
IHash(h) == Ln("ihash", "", "", NoSeq, NoSeq, 0, h, 0, 2)       \*   Hash: h

AllIds == {"a", "b", "c", "d", "e", "f", "g", "z"}

NoMeta == [seen |-> FALSE, hash |-> -1, created |-> 0, modified |-> 0]

(* the scan of parse_index_metadata over the lines between the markers:      *)
(* metadata[id] is NoMeta for an id with no dict, current_id "" for None.     *)
RECURSIVE MetaFrom(_, _, _, _, _)
MetaFrom(metadata, current_id, lines, p, last_p) ==
    IF p > last_p THEN metadata
    ELSE LET line == lines[p]
         IN  IF IsBlank(line)
             THEN MetaFrom(metadata, "", lines, p + 1, last_p)
             ELSE IF line.k = "ientry" /\ line.lv >= 1 /\ line.lv <= 6
             THEN MetaFrom([metadata EXCEPT ![line.id].seen = TRUE], line.id,
                           lines, p + 1, last_p)
             ELSE IF current_id = ""
             THEN MetaFrom(metadata, current_id, lines, p + 1, last_p)
             ELSE IF line.k = "ihash"
             THEN MetaFrom([metadata EXCEPT ![current_id].hash = line.a], current_id,
                           lines, p + 1, last_p)
             ELSE IF line.k = "istamp"
             THEN MetaFrom([metadata EXCEPT
                               ![current_id].created = IF line.a # 0 THEN line.a ELSE @,
                               ![current_id].modified = IF line.b # 0 THEN line.b ELSE @],
                           current_id, lines, p + 1, last_p)
             ELSE MetaFrom(metadata, current_id, lines, p + 1, last_p)

(* the marker scan shared by rebuild_index, parse_index_metadata, index_command, *)
(* read_by_title_command: the last ===INDEX=== before the first ===CONTENT===,  *)
(* and that ===CONTENT===; -1 for None.                                          *)
FirstContent(lines) ==
    IF Positions(lines, "CONTENT") = {} THEN -1 ELSE Min(Positions(lines, "CONTENT"))

IndexBefore(lines, limit) ==
    LET S == {i \in Positions(lines, "INDEX") : i < limit}
    IN  IF S = {} THEN -1 ELSE Max(S)

ScanEnd(lines) == IF FirstContent(lines) = -1 THEN Len(lines) ELSE FirstContent(lines)

(* parse_index_metadata(lines) *)
parse_index_metadata(lines) ==
    LET index_start == IndexBefore(lines, ScanEnd(lines))
        index_end == FirstContent(lines)
    IN  IF index_start = -1 \/ index_end = -1
        THEN [id \in AllIds |-> NoMeta]
        ELSE MetaFrom([id \in AllIds |-> NoMeta], "", lines, index_start + 2, index_end)

(* the entry lines generate_index writes for one section *)
EntryLines(section) ==
    <<IEntry(section.level, section.title, section.id, section.start_line,
             section.end_line, section.word_count)>>
    \o (IF section.summary # NoSeq THEN <<ISummary(section.summary)>> ELSE <<>>)
    \o (IF section.created # 0 \/ section.modified # 0
        THEN <<IStamp(section.created, section.modified)>> ELSE <<>>)
    \o (IF section.x_hash # -1 THEN <<IHash(section.x_hash)>> ELSE <<>>)
    \o <<Blank>>

RECURSIVE AllEntryLines(_)
AllEntryLines(sections) ==
    IF sections = <<>> THEN <<>>
    ELSE EntryLines(sections[1]) \o AllEntryLines(Tail(sections))

(* an index in which an entry whose end line has two digits takes a line more *)
GenerateIndexWrapped(sections, content_hash, now) ==
    <<IndexMarker, CAuto, CGen(now[1], now[2]), CHash(content_hash), Blank>>
    \o AllEntryLines(sections)
    \o SelectSeq([i \in 1..Len(sections) |-> IF sections[i].end_line >= 10 THEN Blank ELSE Decl],
                 LAMBDA l : l = Blank)

(* generate_index(sections, content_hash); now = <<day, sec>> is the clock *)
generate_index(sections, content_hash, now) ==
    <<IndexMarker, CAuto, CGen(now[1], now[2]), CHash(content_hash), Blank>>
    \o AllEntryLines(sections)

----------------------------------------------------------------------------
(* rebuild_index *)

(* "Update Created" / "Update Modified" of the staleness loop, for one section *)
UpdateCreated(old_created, day) == IF old_created # 0 THEN old_created ELSE day

(* a rebuild that touches Modified every time it runs *)
UpdateModifiedAlways(old_hash, new_hash, old_modified, day) == day

UpdateModified(old_hash, new_hash, old_modified, day) ==
    IF old_hash # -1 /\ old_hash # new_hash THEN day
    ELSE IF old_hash # -1 THEN old_modified
    ELSE IF old_modified # 0 THEN old_modified ELSE day

(* the body of the loop `for section in sections` at "Auto-update Modified" *)
Restamp(section, index_meta, day) ==
    LET new_hash == compute_content_hash(section.content_lines)
        old == IF section.id \in DOMAIN index_meta THEN index_meta[section.id] ELSE NoMeta
    IN  [section EXCEPT
            !.word_count = count_words(section.content_lines),
            !.created = UpdateCreated(old.created, day),
            !.modified = UpdateModified(old.hash, new_hash, old.modified, day),
            !.x_hash = new_hash]

(* "No existing INDEX, insert after header": after the first :::IATF line and *)
(* the lines starting with "@" that follow it; -1 for None.                   *)
RECURSIVE SkipMeta(_, _)
SkipMeta(lines, header_end) ==
    IF header_end < Len(lines) /\ StartsWithAt(lines[header_end + 1])
    THEN SkipMeta(lines, header_end + 1) ELSE header_end

HeaderEndNoIndex(lines) ==
    IF Positions(lines, "decl") = {} THEN -1
    ELSE SkipMeta(lines, Min(Positions(lines, "decl")) + 1)

(* while pre_lines and pre_lines[-1].strip() == "": pre_lines.pop() *)
RECURSIVE TrimTrailingBlank(_)
TrimTrailingBlank(lines) ==
    IF lines # <<>> /\ IsBlank(Last(lines)) THEN TrimTrailingBlank(Front(lines)) ELSE lines

(* while post_lines and post_lines[0].strip() == "": post_lines.pop(0) *)
RECURSIVE TrimLeadingBlank(_)
TrimLeadingBlank(lines) ==
    IF lines # <<>> /\ IsBlank(lines[1]) THEN TrimLeadingBlank(Tail(lines)) ELSE lines

(* original_span, new_span and line_delta of the two-pass generation *)
LineDelta(new_index, header_end, index_end) ==
    (Len(new_index) + 1) - (index_end - header_end)

Shift(sections, line_delta) ==
    [i \in 1..Len(sections) |->
        [sections[i] EXCEPT !.start_line = @ + line_delta, !.end_line = @ + line_delta]]

(* a rebuild that has opened the file for writing before it checks the document *)
FailedTruncating(lines, errors) ==
    [ok |-> FALSE, written |-> TRUE, lines |-> <<Blank>>, errors |-> errors]

(* the `return False` paths of rebuild_index: nothing is written *)
Failed(lines, errors) == [ok |-> FALSE, written |-> FALSE, lines |-> lines, errors |-> errors]

(* rebuild_index on the file text `lines`, on calendar day now[1]: whether it *)
(* returned True, whether it wrote, the file afterwards, and what it printed  *)
(* to stderr.                                                                  *)
rebuild_index(lines, now) ==
    LET content_start == FirstContent(lines) + 1
        nesting_error == validate_nesting(lines, content_start)
        parsed == parse_content_section(lines, content_start)
        index_meta == parse_index_metadata(lines)
        duplicate_ids == find_duplicate_section_ids(parsed)
        ref_errors == validate_references(lines, content_start, parsed)
        sections == [i \in 1..Len(parsed) |-> Restamp(parsed[i], index_meta, now[1])]
        index_end == FirstContent(lines)
        header_end == IF IndexBefore(lines, index_end) # -1
                      THEN IndexBefore(lines, index_end)
                      ELSE HeaderEndNoIndex(lines)
        content_hash == Sha256Hex7(Drop(lines, content_start))
        first_index == generate_index(sections, content_hash, now)
        line_delta == LineDelta(first_index, header_end, index_end)
        new_index == IF line_delta # 0
                     THEN generate_index(Shift(sections, line_delta), content_hash, now)
                     ELSE first_index
        pre_lines == TrimTrailingBlank(Take(lines, header_end))
        post_lines == TrimLeadingBlank(Drop(lines, index_end))
    IN  IF FirstContent(lines) = -1
        THEN Failed(lines, <<Err("No ===CONTENT=== section found", "", 0)>>)
        ELSE IF nesting_error # NoError
        THEN Failed(lines, <<Err("Invalid section nesting", nesting_error.id, 0)>>)
        ELSE IF parsed = <<>>
        THEN Failed(lines, <<Err("No sections found", "", 0)>>)
        ELSE IF duplicate_ids # <<>>
        THEN Failed(lines,
                    [i \in 1..Len(duplicate_ids) |->
                        Err("Duplicate section ID", duplicate_ids[i], 0)]
                    \o <<Err("duplicate section ID(s) found", "", 0)>>)
        ELSE IF ref_errors # <<>>
        THEN \* print(... len(errors) ...) raises NameError, caught by `except Exception`
             Failed(lines, ref_errors \o <<Err("Error rebuilding", "", 0)>>)
        ELSE IF header_end = -1
        THEN Failed(lines, <<Err("Invalid iatf file format", "", 0)>>)
        ELSE [ok |-> TRUE, written |-> TRUE,
              lines |-> pre_lines \o <<Blank>> \o new_index \o <<Blank>> \o post_lines,
              errors |-> <<>>]

----------------------------------------------------------------------------
(* validate_command *)

(* the elements of a set of integers, ascending *)
RECURSIVE Ascending(_)
Ascending(S) == IF S = {} THEN <<>> ELSE <<Min(S)>> \o Ascending(S \ {Min(S)})

FullHashLen == 64   \* hex characters of an untruncated SHA-256 digest

(* the hex characters of hexdigest() after the first HashLen, as a number *)
RECURSIVE ShaRestUpTo(_, _)
ShaRestUpTo(lines, n) ==
    IF n = 0 THEN 11 ELSE Mix(ShaRestUpTo(lines, n - 1) + 3, LineCode(lines[n]))

Sha256Rest(lines) == ShaRestUpTo(lines, Len(lines))

(* Check 1 and Check 2 without the comparison of the marker positions *)
MarkerErrorsNoOrder(lines) ==
    LET index_positions == Positions(lines, "INDEX")
        content_positions == Positions(lines, "CONTENT")
    IN  (IF lines[1].k # "decl" THEN <<Err("Missing format declaration", "", 0)>> ELSE <<>>)
        \o (IF content_positions = {} THEN <<Err("Missing CONTENT section", "", 0)>> ELSE <<>>)
        \o (IF Cardinality(index_positions) > 1
            THEN <<Err("Multiple INDEX sections found", "", 0)>> ELSE <<>>)
        \o (IF Cardinality(content_positions) > 1
            THEN <<Err("Multiple CONTENT sections found", "", 0)>> ELSE <<>>)

(* Check 1 and Check 2 *)
MarkerErrors(lines) ==
    LET index_positions == Positions(lines, "INDEX")
        content_positions == Positions(lines, "CONTENT")
    IN  (IF lines[1].k # "decl" THEN <<Err("Missing format declaration", "", 0)>> ELSE <<>>)
        \o (IF content_positions = {} THEN <<Err("Missing CONTENT section", "", 0)>> ELSE <<>>)
        \o (IF Cardinality(index_positions) > 1
            THEN <<Err("Multiple INDEX sections found", "", 0)>> ELSE <<>>)
        \o (IF Cardinality(content_positions) > 1
            THEN <<Err("Multiple CONTENT sections found", "", 0)>> ELSE <<>>)
        \o (IF index_positions # {} /\ content_positions # {}
               /\ Min(index_positions) > Min(content_positions)
            THEN <<Err("INDEX section appears after CONTENT", "", 0)>> ELSE <<>>)

(* Check 4: the warnings about the Content-Hash comment *)
HashWarnings(lines) ==
    LET index_start == IndexBefore(lines, ScanEnd(lines))
        content_start == FirstContent(lines) + 1
        hash_lines == IF index_start # -1 /\ FirstContent(lines) # -1
                      THEN {i \in (index_start + 1)..content_start : lines[i].k = "chash"}
                      ELSE {}
        line == lines[Min(hash_lines)]
        content == Drop(lines, content_start)
        hash_matches == IF line.lv = HashLen
                        THEN Sha256Hex7(content) = line.a
                        ELSE line.lv = FullHashLen /\ Sha256Hex7(content) = line.a
                             /\ Sha256Rest(content) = line.b
    IN  IF Positions(lines, "INDEX") = {}
        THEN <<Err("No INDEX section", "", 0)>>
        ELSE IF hash_lines = {}
        THEN <<Err("INDEX missing Content-Hash", "", 0)>>
        ELSE IF ~hash_matches
        THEN <<Err("INDEX Content-Hash does not match CONTENT", "", 0)>>
        ELSE <<>>

(* Check 5, over all lines of the file: the errors, then the ids left open *)
RECURSIVE NestingScan(_, _, _, _)
NestingScan(errors, open_sections, lines, p) ==
    IF p > Len(lines)
    THEN [errors |-> errors \o [i \in 1..Len(open_sections) |->
                                   Err("Unclosed section", open_sections[i], 0)],
          invalid_nesting |-> errors # <<>> \/ open_sections # <<>>]
    ELSE LET line == lines[p]
         IN  IF line.k = "open"
             THEN NestingScan(errors, Append(open_sections, line.id), lines, p + 1)
             ELSE IF line.k = "close"
             THEN IF open_sections # <<>> /\ Last(open_sections) = line.id
                  THEN NestingScan(errors, Front(open_sections), lines, p + 1)
                  ELSE NestingScan(
                         Append(errors, Err("Closing tag without matching opening", line.id, 0)),
                         open_sections, lines, p + 1)
             ELSE NestingScan(errors, open_sections, lines, p + 1)

(* a Check 6 that goes on after the first line it reports *)
RECURSIVE OutsideEvery(_, _, _)
OutsideEvery(open_sections, lines, p) ==
    IF p > Len(lines) THEN <<>>
    ELSE LET line == lines[p]
         IN  IF line.k = "open"
             THEN OutsideEvery(Append(open_sections, line.id), lines, p + 1)
             ELSE IF line.k = "close"
             THEN OutsideEvery(IF open_sections # <<>> /\ Last(open_sections) = line.id
                               THEN Front(open_sections) ELSE open_sections, lines, p + 1)
             ELSE (IF open_sections = <<>> /\ ~IsBlank(line)
                   THEN <<Err("Content outside section block", "", p)>> ELSE <<>>)
                  \o OutsideEvery(open_sections, lines, p + 1)

(* Check 6: the first non-blank CONTENT line outside every open section *)
RECURSIVE OutsideFrom(_, _, _)
OutsideFrom(open_sections, lines, p) ==
    IF p > Len(lines) THEN <<>>
    ELSE LET line == lines[p]
         IN  IF line.k = "open"
             THEN OutsideFrom(Append(open_sections, line.id), lines, p + 1)
             ELSE IF line.k = "close"
             THEN OutsideFrom(IF open_sections # <<>> /\ Last(open_sections) = line.id
                              THEN Front(open_sections) ELSE open_sections, lines, p + 1)
             ELSE IF open_sections = <<>> /\ ~IsBlank(line)
             THEN <<Err("Content outside section block", "", p)>>
             ELSE OutsideFrom(open_sections, lines, p + 1)

(* index_entry_re of Check 7 matches the line *)
IsRangeEntry(line) == line.k = "ientry" /\ line.lv >= 1 /\ line.lv <= 6 /\ line.a >= 0 /\ line.b >= 0

(* Check 7: INDEX entries against the CONTENT parse, and the depth check *)
IndexErrors(lines) ==
    LET index_start == IndexBefore(lines, ScanEnd(lines))
        content_start == FirstContent(lines) + 1
        entry_at == Ascending({i \in (index_start + 2)..content_start : IsRangeEntry(lines[i])})
        \* index_ranges: the first entry of each id
        first_at == {entry_at[j] : j \in {j \in 1..Len(entry_at) :
                        \A h \in 1..(j - 1) : lines[entry_at[h]].id # lines[entry_at[j]].id}}
        index_ids == Ascending(first_at)
        parsed_sections == parse_content_section(lines, content_start)
        n == Len(parsed_sections)
        \* content_sections: a dict, so the last section of an id gives its range,
        \* and its keys are in order of first occurrence
        keys == Ascending({i \in 1..n : \A h \in 1..(i - 1) :
                              parsed_sections[h].id # parsed_sections[i].id})
        RangeOf(id) == LET i == Max({h \in 1..n : parsed_sections[h].id = id})
                       IN  <<parsed_sections[i].start_line, parsed_sections[i].end_line>>
        IndexRange(id) == LET i == CHOOSE h \in first_at : lines[h].id = id
                          IN  <<lines[i].a, lines[i].b>>
        content_ids == {parsed_sections[i].id : i \in 1..n}
        indexed_ids == {lines[i].id : i \in first_at}
        EntryErrors(i) ==
            IF i \notin first_at
            THEN <<Err("Duplicate INDEX section ID", lines[i].id, 0)>>
            ELSE IF lines[i].a < 1 \/ lines[i].b < lines[i].a \/ lines[i].b > Len(lines)
            THEN <<Err("Invalid line range for INDEX section", lines[i].id, 0)>>
            ELSE <<>>
        RECURSIVE Entries(_)
        Entries(j) == IF j > Len(entry_at) THEN <<>>
                      ELSE EntryErrors(entry_at[j]) \o Entries(j + 1)
        RECURSIVE Depth(_)
        Depth(i) == IF i > n THEN <<>>
                    ELSE (IF parsed_sections[i].level > 2
                          THEN <<Err("Section nesting exceeds 2 levels", parsed_sections[i].id, 0)>>
                          ELSE <<>>) \o Depth(i + 1)
        RECURSIVE Missing(_)
        Missing(j) == IF j > Len(index_ids) THEN <<>>
                      ELSE (IF lines[index_ids[j]].id \notin content_ids
                            THEN <<Err("INDEX references missing CONTENT section",
                                       lines[index_ids[j]].id, 0)>>
                            ELSE <<>>) \o Missing(j + 1)
        RECURSIVE Unindexed(_)
        Unindexed(j) == IF j > Len(keys) THEN <<>>
                        ELSE (IF parsed_sections[keys[j]].id \notin indexed_ids
                              THEN <<Err("CONTENT section missing from INDEX",
                                         parsed_sections[keys[j]].id, 0)>>
                              ELSE <<>>) \o Unindexed(j + 1)
        RECURSIVE Mismatch(_)
        Mismatch(j) == IF j > Len(keys) THEN <<>>
                       ELSE LET id == parsed_sections[keys[j]].id
                            IN  (IF id \in indexed_ids /\ IndexRange(id) # RangeOf(id)
                                 THEN <<Err("INDEX line range mismatch for section", id, 0)>>
                                 ELSE <<>>) \o Mismatch(j + 1)
    IN  Entries(1) \o Depth(1) \o Missing(1) \o Unindexed(1) \o Mismatch(1)

(* Check 8, over all lines of the file: one error per repeated opening tag *)
DuplicateErrors(lines) ==
    LET opens == Ascending({i \in 1..Len(lines) : lines[i].k = "open"})
        RECURSIVE Dup(_)
        Dup(j) == IF j > Len(opens) THEN <<>>
                  ELSE (IF \E h \in 1..(j - 1) : lines[opens[h]].id = lines[opens[j]].id
                        THEN <<Err("Duplicate section ID", lines[opens[j]].id, 0)>>
                        ELSE <<>>) \o Dup(j + 1)
    IN  Dup(1)

(* validate_command: the errors and warnings collected, and the exit status *)
validate_command(lines) ==
    LET has_index == Positions(lines, "INDEX") # {}
        has_content == FirstContent(lines) # -1
        index_start == IndexBefore(lines, ScanEnd(lines))
        content_start == FirstContent(lines) + 1
        nesting_error == validate_nesting(lines, content_start)
        scan == NestingScan(<<>>, <<>>, lines, 1)
        errors ==
            MarkerErrors(lines)
            \o (IF has_content /\ nesting_error # NoError
                THEN <<Err("Invalid section nesting", nesting_error.id, 0)>> ELSE <<>>)
            \o scan.errors
            \o (IF ~scan.invalid_nesting /\ has_content
                THEN OutsideFrom(<<>>, lines, content_start + 1) ELSE <<>>)
            \o (IF ~scan.invalid_nesting /\ has_index /\ has_content /\ index_start # -1
                THEN IndexErrors(lines) ELSE <<>>)
            \o DuplicateErrors(lines)
            \o (IF ~scan.invalid_nesting /\ has_content
                THEN validate_references(lines, content_start,
                                         parse_content_section(lines, content_start))
                ELSE <<>>)
        warnings ==
            HashWarnings(lines)
            \o (IF \A i \in 1..Len(lines) : lines[i].k # "open"
                THEN <<Err("No sections found in CONTENT", "", 0)>> ELSE <<>>)
    IN  [errors |-> errors, warnings |-> warnings, rc |-> IF errors # <<>> THEN 1 ELSE 0]

----------------------------------------------------------------------------
(* read_command and graph_command *)

Result(op, arg, rc, out, errors, warnings, graph) ==
    [op |-> op, arg |-> arg, rc |-> rc, out |-> out, errors |-> errors,
     warnings |-> warnings, graph |-> graph]

(* read_command(filepath, section_id): exit status and the lines printed *)
read_command(lines, section_id) ==
    LET index_start == IndexBefore(lines, ScanEnd(lines))
        content_start == FirstContent(lines) + 1
        sections == parse_content_section(lines, content_start)
        hits == {i \in 1..Len(sections) : sections[i].id = section_id}
        target_section == sections[Min(hits)]
    IN  IF index_start = -1
        THEN [rc |-> 1, out |-> <<>>, errors |-> <<Err("No ===INDEX=== section found", "", 0)>>]
        ELSE IF FirstContent(lines) = -1
        THEN [rc |-> 1, out |-> <<>>, errors |-> <<Err("No ===CONTENT=== section found", "", 0)>>]
        ELSE IF hits = {}
        THEN [rc |-> 1, out |-> <<>>, errors |-> <<Err("Section not found", section_id, 0)>>]
        ELSE [rc |-> 0,
              out |-> SubSeq(lines, target_section.start_line, target_section.end_line),
              errors |-> <<>>]

(* the characters of a title, an id or a query *)
Spelling(x) ==
    CASE x = "T1" -> <<"T", "1">>
      [] x = "T2" -> <<"T", "2">>
      [] x = "#T" -> <<"#", "T">>
      [] x = "OK" -> <<"O", "K">>
      [] x = "BOOK" -> <<"B", "O", "O", "K">>
      [] x = "ok" -> <<"o", "k">>
      [] x = "book" -> <<"b", "o", "o", "k">>
      [] x = "t1" -> <<"t", "1">>
      [] x = "zz" -> <<"z", "z">>
      [] OTHER -> <<x>>

(* str.lower(), character by character *)
LowerChar(c) ==
    CASE c = "T" -> "t" [] c = "O" -> "o" [] c = "K" -> "k" [] c = "B" -> "b"
      [] OTHER -> c

Lower(chars) == [i \in 1..Len(chars) |-> LowerChar(chars[i])]

(* needle in haystack, for strings *)
Contains(haystack, needle) ==
    \E i \in 0..(Len(haystack) - Len(needle)) :
        SubSeq(haystack, i + 1, i + Len(needle)) = needle

(* index_entry_pattern of read_by_title_command matches the entry line: the title *)
(* must end with "O " or "K " before "{#id |", after at least one other character *)
TitlePatternMatches(line) ==
    /\ line.k = "ientry" /\ line.lv >= 1 /\ line.lv <= 6
    /\ Len(Spelling(line.t)) >= 2
    /\ Last(Spelling(line.t)) \in {"O", "K"}

(* match.group(1): the title and the space that follows it *)
TitleCaptured(line) == Spelling(line.t) \o <<" ">>

(* read_by_title_command(filepath, title) *)
read_by_title_command(lines, title) ==
    LET index_start == IndexBefore(lines, ScanEnd(lines))
        index_end == FirstContent(lines)
        entries == Ascending({i \in (index_start + 2)..index_end :
                                 TitlePatternMatches(lines[i])})
        exact == {j \in 1..Len(entries) :
                     Lower(TitleCaptured(lines[entries[j]])) = Lower(Spelling(title))}
        contains == {j \in 1..Len(entries) :
                        Contains(Lower(TitleCaptured(lines[entries[j]])),
                                 Lower(Spelling(title)))}
        matched == IF exact # {} THEN Min(exact) ELSE Min(contains)
    IN  IF index_start = -1 \/ index_end = -1
        THEN [rc |-> 1, out |-> <<>>, errors |-> <<Err("Invalid iatf file format", "", 0)>>]
        ELSE IF exact = {} /\ contains = {}
        THEN [rc |-> 1, out |-> <<>>,
              errors |-> <<Err("No section found with title matching", title, 0)>>]
        ELSE read_command(lines, lines[entries[matched]].id)

(* sorted, duplicate-free list of ids *)
SortedIds(S) ==
    LET codes == Ascending({StrCode(x) : x \in S})
    IN  [j \in 1..Len(codes) |-> Names[codes[j]]]

(* a graph whose incoming listing repeats the outgoing one *)
GraphCommandOutgoingOnly(lines, show_incoming) ==
    LET content_start == FirstContent(lines) + 1
        sections == parse_content_section(lines, content_start)
        raw == extract_references(lines, content_start)
        located == {j \in 1..Len(raw) : raw[j].containing # ""}
        outgoing_refs(id) == SortedIds({raw[j].target : j \in {h \in located : raw[h].containing = id}})
    IN  IF FirstContent(lines) = -1 \/ validate_nesting(lines, content_start) # NoError
           \/ sections = <<>>
        THEN [rc |-> 1, graph |-> <<>>, errors |-> <<Err("No graph", "", 0)>>]
        ELSE [rc |-> 0,
              graph |-> [i \in 1..Len(sections) |->
                           [id |-> sections[i].id, refs |-> outgoing_refs(sections[i].id)]],
              errors |-> <<>>]

(* graph_command(filepath, show_incoming): exit status and the lines printed, *)
(* one per section: its id and the ids listed after "->" or "<-".             *)
graph_command(lines, show_incoming) ==
    LET content_start == FirstContent(lines) + 1
        nesting_error == validate_nesting(lines, content_start)
        sections == parse_content_section(lines, content_start)
        raw == extract_references(lines, content_start)
        located == {j \in 1..Len(raw) : raw[j].containing # ""}
        outgoing_refs(id) == SortedIds({raw[j].target : j \in {h \in located : raw[h].containing = id}})
        incoming_refs(id) == SortedIds({raw[j].containing : j \in {h \in located : raw[h].target = id}})
    IN  IF FirstContent(lines) = -1
        THEN [rc |-> 1, graph |-> <<>>, errors |-> <<Err("No ===CONTENT=== section found", "", 0)>>]
        ELSE IF nesting_error # NoError
        THEN [rc |-> 1, graph |-> <<>>, errors |-> <<Err("Invalid section nesting", nesting_error.id, 0)>>]
        ELSE IF sections = <<>>
        THEN [rc |-> 1, graph |-> <<>>, errors |-> <<Err("No sections found in CONTENT", "", 0)>>]
        ELSE [rc |-> 0,
              graph |-> [i \in 1..Len(sections) |->
                           [id |-> sections[i].id,
                            refs |-> IF show_incoming THEN incoming_refs(sections[i].id)
                                     ELSE outgoing_refs(sections[i].id)]],
              errors |-> <<>>]

----------------------------------------------------------------------------
(* Documents the model starts from *)

Sec(id, body) == <<Open(id)>> \o body \o <<Close(id)>>

ChainIds == <<"a", "b", "c", "d", "e", "f", "g">>

(* sections nested one inside the other, ids ChainIds[i..n], with text in the *)
(* outermost and in the innermost                                             *)
RECURSIVE Chain(_, _)
Chain(i, n) ==
    IF i > n THEN <<Text(1)>>
    ELSE <<Open(ChainIds[i])>> \o (IF i = 1 THEN <<Text(1)>> ELSE <<>>)
         \o Chain(i + 1, n) \o <<Close(ChainIds[i])>>

(* CONTENT regions that rebuild accepts when the depth is not looked at *)
GoodContents ==
    {Sec("a", <<Text(1)>>),
     Sec("a", <<Heading("T1"), Text(1)>>),
     Sec("a", <<ASummary(<<"S1">>), Cont("C1"), Text(1)>>),
     Sec("a", <<Text(1), Ref(<<"b">>)>>) \o <<Blank>> \o Sec("b", <<Text(1)>>),
     <<Open("a"), Text(1)>> \o Sec("b", <<Ref(<<"a">>), Text(2)>>) \o <<Close("a")>>,
     Chain(1, 3),
     Chain(1, Len(ChainIds))}

(* CONTENT regions with a structural error *)
BadContents ==
    {Sec("a", <<Ref(<<"a">>)>>),                                  \* self-reference
     Sec("a", <<Text(1)>>) \o Sec("b", <<Ref(<<"z">>)>>),         \* no such target
     Sec("a", <<Text(1)>>) \o Sec("a", <<Text(2)>>),              \* duplicate id
     <<Open("a"), Text(1)>>,                                      \* left open
     Sec("a", <<Text(1)>>) \o <<Close("b")>>,                     \* close without open
     <<Open("a"), Open("b"), Text(1), Close("a"), Close("b")>>,   \* crossed
     <<Text(1)>>}                                                 \* no section

Contents == GoodContents \cup BadContents

(* a hand-written or stale INDEX entry for section a *)
OldEntries ==
    {<<IEntry(1, "a", "a", 1, 2, 1)>>
        \o (IF c # 0 \/ m # 0 THEN <<IStamp(c, m)>> ELSE <<>>)
        \o (IF h # -1 THEN <<IHash(h)>> ELSE <<>>)
        \o <<Blank>> :
     c \in {0, 1}, m \in {0, 1},
     h \in {-1, compute_content_hash(<<Text(1)>>), compute_content_hash(<<Text(2)>>)}}

Layouts ==
    {<<Decl>> \o Repeat(Blank, j) : j \in 0..MaxBlank}
    \cup {<<Decl>> \o Repeat(Blank, k) \o <<IndexMarker, Junk>> : k \in 0..MaxBlank}

MetaLayouts == {<<Decl, Blank, IndexMarker, Blank>> \o e : e \in OldEntries}

Doc(pre, content) == pre \o <<ContentMarker, Blank>> \o content \o <<Blank>>

(* every layout with two contents, every content with and without an INDEX, *)
(* and the stale entries with the one-section content                        *)
Documents ==
    {Doc(pre, c) : pre \in Layouts,
                   c \in {Sec("a", <<Text(1)>>),
                          Sec("a", <<Text(1), Ref(<<"b">>)>>) \o <<Blank>> \o Sec("b", <<Text(1)>>)}}
    \cup {Doc(<<Decl, Blank, IndexMarker, Junk>>, c) : c \in Contents}
    \cup {Doc(<<Decl, Meta>>, Sec("a", <<Text(1)>>))}
    \cup {Doc(<<Decl, Blank>>, c) : c \in BadContents \cup {Chain(1, 3)}}
    \cup {Doc(pre, Sec("a", <<Text(1)>>)) : pre \in MetaLayouts}

----------------------------------------------------------------------------
(* The watch registry and the processes that run iatf watch *)

MaxPid == 2       \* processes that run iatf watch, each once

(* the files iatf watch is run on; P1 holds the document `file` *)
Paths == {"P1", "P2"}

(* what a watcher or a command did last.  reply is what a manual rebuild gets   *)
(* when it asks: "notty" without a terminal, else the line typed; flip tells a  *)
(* turn of a loop, or a manual rebuild, from the one right before it            *)
Event(op, pid, path, rebuilt, ok, rc, asked, reply) ==
    [op |-> op, pid |-> pid, path |-> path, rebuilt |-> rebuilt, ok |-> ok, rc |-> rc,
     asked |-> asked, reply |-> reply,
     flip |-> op \in {"tick", "rebuild"} /\ watch.event.op = op /\ ~watch.event.flip]

(* a process that has not run iatf watch.  pc: none, watching, stopped (it left *)
(* the loop or crashed), killed.  mtime: how path.stat().st_mtime stands to the *)
(* loop's last_mtime: "seen" when not greater, "external" when greater since    *)
(* another process wrote the file, "own" when greater by the loop's own write   *)
NoProc == [pc |-> "none", path |-> "", mtime |-> "seen"]

(* state: WATCH_STATE_FILE is missing, ok (it parses) or corrupt.  registry[p]: *)
(* 0 when the path has no entry, -1 for an entry without a "pid" field, else    *)
(* the pid of the entry                                                         *)
NoWatch ==
    [state |-> "missing",
     registry |-> [p \in Paths |-> 0],
     procs |-> [w \in 1..MaxPid |-> NoProc],
     event |-> [op |-> "none", pid |-> 0, path |-> "", rebuilt |-> FALSE, ok |-> FALSE,
                rc |-> 0, asked |-> FALSE, reply |-> "", flip |-> FALSE]]

(* is_process_running: os.kill(pid, 0) succeeds for a process still running *)
is_process_running(procs, pid) == pid \in DOMAIN procs /\ procs[pid].pc = "watching"

(* prompt_user_confirmation: reply is "notty" when stdin is no terminal, else *)
(* the line read, stripped and lowercased                                    *)
prompt_user_confirmation(reply, default) ==
    IF reply = "notty" THEN default
    ELSE IF reply = "" THEN default
    ELSE reply \in {"y", "yes"}

(* a guard that lets every manual rebuild through without asking *)
CheckWatchedFileNever(w, path, reply) == [proceed |-> TRUE, asked |-> FALSE]

(* check_watched_file: whether the rebuild proceeds, and whether it had to ask *)
check_watched_file(w, path, reply) ==
    IF w.state # "ok" THEN [proceed |-> TRUE, asked |-> FALSE]
    ELSE IF w.registry[path] = 0 THEN [proceed |-> TRUE, asked |-> FALSE]
    ELSE IF w.registry[path] = -1 \/ ~is_process_running(w.procs, w.registry[path])
    THEN [proceed |-> TRUE, asked |-> FALSE]
    ELSE [proceed |-> prompt_user_confirmation(reply, FALSE), asked |-> TRUE]

(* a cleanup that deletes the entry of the path whoever owns it *)
CleanupAnyPid(w, pid, path) ==
    IF w.state = "ok" /\ w.registry[path] # 0
    THEN [w.registry EXCEPT ![path] = 0]
    ELSE w.registry

(* cleanup_pid of the process pid watching path: the registry it leaves *)
cleanup_pid(w, pid, path) ==
    IF w.state = "ok" /\ w.registry[path] = pid
    THEN [w.registry EXCEPT ![path] = 0]
    ELSE w.registry

----------------------------------------------------------------------------
(* The commands as actions on the document *)

NoResult == Result("none", "", 0, <<>>, <<>>, <<>>, <<>>)

(* nothing has happened to the document yet *)
NoHistory == [rebuilt |-> FALSE, day |-> 0, edited |-> {}, content |-> <<>>]

Init ==
    /\ file \in Documents
    /\ today = 1
    /\ last = NoResult
    /\ since = NoHistory
    /\ watch = NoWatch

(* iatf rebuild / rebuild-all / the watcher's rebuild: rebuild_index at some *)
(* second of the current day                                                 *)
Rebuild ==
    \E sec \in 0..MaxSec :
        LET r == rebuild_index(file, <<today, sec>>)
        IN  /\ file' = r.lines
            /\ last' = Result("rebuild", "", IF r.ok THEN 0 ELSE 1, <<>>, r.errors, <<>>, <<>>)
            /\ since' = IF r.ok
                         THEN [rebuilt |-> TRUE, day |-> today, edited |-> {},
                               content |-> Drop(r.lines, FirstContent(r.lines) + 1)]
                         ELSE since
            /\ UNCHANGED <<today, watch>>

(* a validate that fails on warnings too *)
ValidateWarningsFail ==
    LET r == validate_command(file)
    IN  /\ last' = Result("validate", "",
                          IF r.errors # <<>> \/ r.warnings # <<>> THEN 1 ELSE 0,
                          <<>>, r.errors, r.warnings, <<>>)
        /\ UNCHANGED <<file, today, since, watch>>

Validate ==
    LET r == validate_command(file)
    IN  /\ last' = Result("validate", "", r.rc, <<>>, r.errors, r.warnings, <<>>)
        /\ UNCHANGED <<file, today, since, watch>>

ReadIds == {"a", "b"}

Read ==
    \E id \in ReadIds :
        LET r == read_command(file, id)
        IN  /\ last' = Result("read", id, r.rc, r.out, r.errors, <<>>, <<>>)
            /\ UNCHANGED <<file, today, since, watch>>

Graph ==
    \E show_incoming \in BOOLEAN :
        LET r == graph_command(file, show_incoming)
        IN  /\ last' = Result("graph", IF show_incoming THEN "incoming" ELSE "outgoing",
                              r.rc, <<>>, r.errors, <<>>, r.graph)
            /\ UNCHANGED <<file, today, since, watch>>

(* the innermost section open at line p of the CONTENT parse, "" if none *)
Enclosing(lines, p) ==
    LET sections == parse_content_section(lines, FirstContent(lines) + 1)
        around == {i \in 1..Len(sections) :
                      sections[i].start_line < p /\ p < sections[i].end_line}
    IN  IF around = {} THEN "" ELSE sections[Max(around)].id

(* an editor saves the document with one body text line rewritten *)
EditBody ==
    \E p \in 1..Len(file) :
        /\ p > FirstContent(file) + 1
        /\ FirstContent(file) # -1
        /\ file[p].k = "text" /\ file[p].r = <<>>
        /\ file' = [file EXCEPT ![p] = Text(3 - file[p].a)]
        /\ last' = Result("edit", Enclosing(file, p), 0, <<>>, <<>>, <<>>, <<>>)
        /\ since' = [since EXCEPT !.edited = @ \cup {Enclosing(file, p)}]
        /\ UNCHANGED <<today, watch>>

(* midnight passes *)
NextDay ==
    /\ today < MaxDay
    /\ today' = today + 1
    /\ UNCHANGED <<file, last, since, watch>>

(* the life of a document: edited, rebuilt, day after day *)
Next == Rebuild \/ EditBody \/ NextDay

Spec == Init /\ [][Next]_vars

(* the same, with validate run at any point *)
NextValidate == Rebuild \/ EditBody \/ NextDay \/ Validate

SpecValidate == Init /\ [][NextValidate]_vars

(* the same, with read and graph run at any point *)
NextQuery == Rebuild \/ EditBody \/ NextDay \/ Read \/ Graph

SpecQuery == Init /\ [][NextQuery]_vars

----------------------------------------------------------------------------
(* The scanners on their own: validate_nesting, validate_references and the *)
(* graph over every short CONTENT region                                    *)

MaxLen == 5       \* lines of a CONTENT region given to the scanners

ScanLines ==
    {Open("a"), Open("b"), Close("a"), Close("b"), Fence,
     Ref(<<"a">>), Ref(<<"b">>), Ref(<<"z">>)}

(* the sequences of at most n lines of ScanLines *)
RECURSIVE Regions(_)
Regions(n) ==
    IF n = 0 THEN {<<>>}
    ELSE LET shorter == Regions(n - 1)
         IN  shorter \cup {Append(c, l) : c \in {d \in shorter : Len(d) = n - 1},
                                          l \in ScanLines}

ScanDocuments == {<<Decl, IndexMarker, ContentMarker>> \o c : c \in Regions(MaxLen)}

InitScan ==
    /\ file \in ScanDocuments
    /\ today = 1
    /\ last = NoResult
    /\ since = NoHistory
    /\ watch = NoWatch

(* the nesting check every command starts with *)
CheckNesting ==
    LET e == validate_nesting(file, FirstContent(file) + 1)
    IN  /\ last' = Result("nesting", e.id, IF e = NoError THEN 0 ELSE 1, <<>>,
                          IF e = NoError THEN <<>> ELSE <<Err(e.msg, e.id, 0)>>, <<>>, <<>>)
        /\ UNCHANGED <<file, today, since, watch>>

(* the reference check of rebuild and validate, which they reach with valid nesting *)
CheckReferences ==
    LET content_start == FirstContent(file) + 1
        errors == validate_references(file, content_start,
                                      parse_content_section(file, content_start))
    IN  /\ validate_nesting(file, content_start) = NoError
        /\ last' = Result("references", "", IF errors = <<>> THEN 0 ELSE 1, <<>>,
                          errors, <<>>, <<>>)
        /\ UNCHANGED <<file, today, since, watch>>

NextScan == CheckNesting \/ CheckReferences \/ Graph

SpecScan == InitScan /\ [][NextScan]_vars

----------------------------------------------------------------------------
(* Reading by title *)

Titles == {"T1", "OK", "BOOK"}

TitleQueries == {"T1", "t1", "OK", "ok", "book", "zz"}

(* a section with a heading of title t, or without a heading when t is "" *)
Titled(id, t) ==
    Sec(id, (IF t = "" THEN <<>> ELSE <<Heading(t)>>) \o <<Text(1)>>)

(* two sections one after the other, each with any of the titles or none *)
TitleDocuments ==
    {Doc(<<Decl, Blank, IndexMarker, Junk>>,
         Titled("a", t1) \o <<Blank>> \o Titled("b", t2)) :
     t1 \in Titles \cup {""}, t2 \in Titles \cup {""}}

InitTitle ==
    /\ file \in TitleDocuments
    /\ today = 1
    /\ last = NoResult
    /\ since = NoHistory
    /\ watch = NoWatch

(* iatf read <file> --title <title> *)
ReadByTitle ==
    \E title \in TitleQueries :
        LET r == read_by_title_command(file, title)
        IN  /\ last' = Result("title", title, r.rc, r.out, r.errors, <<>>, <<>>)
            /\ UNCHANGED <<file, today, since, watch>>

NextTitle == Rebuild \/ ReadByTitle

SpecTitle == InitTitle /\ [][NextTitle]_vars

----------------------------------------------------------------------------
(* The section parser and the reference extractor on their own, over every *)
(* short CONTENT region with valid nesting                                 *)

MaxBody == 5      \* lines of a CONTENT region given to the parser and the extractor

ParserLines ==
    {Open("a"), Open("b"), Close("a"), Close("b"), Heading("T1"), Heading("T2"),
     ASummary(<<"S1">>), Cont("C1"), Text(1)}

ExtractorLines ==
    {Open("a"), Open("b"), Close("a"), Close("b"), Fence, FenceLang,
     Ref(<<"a">>), Ref(<<"z">>)}

(* the sequences of at most n lines of the set L that close, innermost first, the *)
(* sections of `open` and those they open themselves: the regions that pass       *)
(* validate_nesting                                                                *)
RECURSIVE Bodies(_, _, _)
Bodies(L, n, open) ==
    (IF open = <<>> THEN {<<>>} ELSE {})
    \cup (IF n = 0 \/ n < Len(open) THEN {}
          ELSE UNION {
                 {<<l>> \o rest :
                    rest \in Bodies(L, n - 1,
                                    IF l.k = "open" THEN Append(open, l.id)
                                    ELSE IF l.k = "close" THEN Front(open)
                                    ELSE open)} :
                 l \in {x \in L : x.k = "close" => (open # <<>> /\ Last(open) = x.id)}})

ParseDocuments ==
    {<<Decl, IndexMarker, ContentMarker>> \o c :
        c \in Bodies(ParserLines, MaxBody, <<>>) \cup Bodies(ExtractorLines, MaxBody, <<>>)}

InitParse ==
    /\ file \in ParseDocuments
    /\ today = 1
    /\ last = NoResult
    /\ since = NoHistory
    /\ watch = NoWatch

(* parse_content_section, as every command calls it after the nesting check *)
Parse ==
    /\ last' = Result("parse", "", 0, parse_content_section(file, FirstContent(file) + 1),
                      <<>>, <<>>, <<>>)
    /\ UNCHANGED <<file, today, since, watch>>

(* extract_references, as validate_references and graph_command call it *)
Extract ==
    /\ last' = Result("extract", "", 0, extract_references(file, FirstContent(file) + 1),
                      <<>>, <<>>, <<>>)
    /\ UNCHANGED <<file, today, since, watch>>

NextParse == Parse \/ Extract

SpecParse == InitParse /\ [][NextParse]_vars

----------------------------------------------------------------------------
(* validate on every short arrangement of markers and delimiters *)

MaxMarkers == 4   \* lines of a document given to validate for its marker checks

MarkerLines == {Decl, IndexMarker, ContentMarker, Open("a"), Close("a")}

(* the sequences of 1..n lines of MarkerLines *)
RECURSIVE Arrangements(_)
Arrangements(n) ==
    IF n = 1 THEN {<<l>> : l \in MarkerLines}
    ELSE LET shorter == Arrangements(n - 1)
         IN  shorter \cup {Append(c, l) : c \in {d \in shorter : Len(d) = n - 1},
                                          l \in MarkerLines}

MarkerDocuments == Arrangements(MaxMarkers)

InitMarkers ==
    /\ file \in MarkerDocuments
    /\ today = 1
    /\ last = NoResult
    /\ since = NoHistory
    /\ watch = NoWatch

NextMarkers == Validate

SpecMarkers == InitMarkers /\ [][NextMarkers]_vars

----------------------------------------------------------------------------
(* Watching: iatf watch and unwatch on two files, the editor and the manual   *)
(* rebuild on the first of them, and the signals that end a watcher.  Each    *)
(* read-modify-write of the registry is one step.  The files are never        *)
(* deleted.                                                                   *)

(* what an editor may save in P1: a document rebuild accepts, and one each with *)
(* an unclosed section, a duplicate id, a reference to no section               *)
WatchDocuments ==
    {Doc(<<Decl, Blank>>, c) :
        c \in {Sec("a", <<Text(1)>>),
               <<Open("a"), Text(1)>>,
               Sec("a", <<Text(1)>>) \o Sec("a", <<Text(2)>>),
               Sec("a", <<Text(1)>>) \o Sec("b", <<Ref(<<"z">>)>>)}}

(* P2 holds a document rebuild accepts *)
OtherDocument == Doc(<<Decl, Blank>>, Sec("a", <<Text(1)>>))

(* no registry yet, or one that holds an entry an older iatf wrote for P1 *)
InitWatch ==
    /\ file \in WatchDocuments
    /\ today = 1
    /\ last = NoResult
    /\ since = NoHistory
    /\ watch \in {NoWatch, [NoWatch EXCEPT !.state = "ok", !.registry["P1"] = -1]}

(* iatf watch <p>, up to the loop: the entry of p is overwritten with the pid *)
(* of this process; a registry that does not parse ends the command           *)
WatchStart(pid, p) ==
    /\ watch.procs[pid].pc = "none"
    /\ watch' =
          IF watch.state = "corrupt"
          THEN [watch EXCEPT
                   !.procs[pid] = [pc |-> "stopped", path |-> p, mtime |-> "seen"],
                   !.event = Event("watch", pid, p, FALSE, FALSE, 1, FALSE, "")]
          ELSE [watch EXCEPT
                   !.state = "ok",
                   !.registry[p] = pid,
                   !.procs[pid] = [pc |-> "watching", path |-> p, mtime |-> "seen"],
                   !.event = Event("watch", pid, p, FALSE, TRUE, 0, FALSE, "")]
    /\ UNCHANGED <<file, today, last, since>>

(* a turn of the loop that ends the watcher when its rebuild fails *)
PollTickStopOnFailure(pid) ==
    /\ watch.procs[pid].pc = "watching"
    /\ LET p == watch.procs[pid].path
       IN  IF watch.state # "ok"
           THEN /\ watch' = [watch EXCEPT
                                !.registry = cleanup_pid(watch, pid, p),
                                !.procs[pid].pc = "stopped",
                                !.event = Event("tick", pid, p, FALSE, FALSE, 0, FALSE, "")]
                /\ file' = file
           ELSE IF watch.registry[p] = 0
           THEN /\ watch' = [watch EXCEPT
                                !.procs[pid].pc = "stopped",
                                !.event = Event("tick", pid, p, FALSE, FALSE, 0, FALSE, "")]
                /\ file' = file
           ELSE IF watch.procs[pid].mtime = "seen"
           THEN /\ watch' = [watch EXCEPT
                                !.event = Event("tick", pid, p, FALSE, FALSE, 0, FALSE, "")]
                /\ file' = file
           ELSE \E r \in {rebuild_index(IF p = "P1" THEN file ELSE OtherDocument,
                                        <<today, 0>>)} :
                /\ watch' =
                      [watch EXCEPT
                          !.procs = [q \in 1..MaxPid |->
                                        IF q = pid
                                        THEN [pc |-> IF r.ok THEN "watching" ELSE "stopped",
                                              path |-> p,
                                              mtime |-> IF r.written THEN "own" ELSE "seen"]
                                        ELSE IF r.written /\ watch.procs[q].pc = "watching"
                                                /\ watch.procs[q].path = p
                                        THEN [watch.procs[q] EXCEPT !.mtime = "external"]
                                        ELSE watch.procs[q]],
                          !.event = Event("tick", pid, p, TRUE, r.ok, 0, FALSE, "")]
                /\ file' = IF p = "P1" /\ r.written THEN r.lines ELSE file
    /\ UNCHANGED <<today, last, since>>

(* a turn of the loop that looks at the file without reading the registry *)
PollTickIgnoreRegistry(pid) ==
    /\ watch.procs[pid].pc = "watching"
    /\ LET p == watch.procs[pid].path
       IN  IF watch.procs[pid].mtime = "seen"
           THEN /\ watch' = [watch EXCEPT
                                !.event = Event("tick", pid, p, FALSE, FALSE, 0, FALSE, "")]
                /\ file' = file
           ELSE \E r \in {rebuild_index(IF p = "P1" THEN file ELSE OtherDocument,
                                        <<today, 0>>)} :
                /\ watch' =
                      [watch EXCEPT
                          !.procs[pid].mtime = IF r.written THEN "own" ELSE "seen",
                          !.event = Event("tick", pid, p, TRUE, r.ok, 0, FALSE, "")]
                /\ file' = IF p = "P1" /\ r.written THEN r.lines ELSE file
    /\ UNCHANGED <<today, last, since>>

(* one turn of the watch loop of process pid, after its sleep: leave when the   *)
(* registry cannot be read (cleanup_pid first, which then finds nothing to do)  *)
(* or has no entry for the path; else rebuild when st_mtime > last_mtime, and   *)
(* take the st_mtime read before the rebuild as the new last_mtime              *)
PollTick(pid) ==
    /\ watch.procs[pid].pc = "watching"
    /\ LET p == watch.procs[pid].path
       IN  IF watch.state # "ok"
           THEN /\ watch' = [watch EXCEPT
                                !.registry = cleanup_pid(watch, pid, p),
                                !.procs[pid].pc = "stopped",
                                !.event = Event("tick", pid, p, FALSE, FALSE, 0, FALSE, "")]
                /\ file' = file
           ELSE IF watch.registry[p] = 0
           THEN /\ watch' = [watch EXCEPT
                                !.procs[pid].pc = "stopped",
                                !.event = Event("tick", pid, p, FALSE, FALSE, 0, FALSE, "")]
                /\ file' = file
           ELSE IF watch.procs[pid].mtime = "seen"
           THEN /\ watch' = [watch EXCEPT
                                !.event = Event("tick", pid, p, FALSE, FALSE, 0, FALSE, "")]
                /\ file' = file
           ELSE \E r \in {rebuild_index(IF p = "P1" THEN file ELSE OtherDocument,
                                        <<today, 0>>)} :
                /\ watch' =
                      [watch EXCEPT
                          !.procs = [q \in 1..MaxPid |->
                                        IF q = pid
                                        THEN [pc |-> "watching", path |-> p,
                                              mtime |-> IF r.written THEN "own" ELSE "seen"]
                                        ELSE IF r.written /\ watch.procs[q].pc = "watching"
                                                /\ watch.procs[q].path = p
                                        THEN [watch.procs[q] EXCEPT !.mtime = "external"]
                                        ELSE watch.procs[q]],
                          !.event = Event("tick", pid, p, TRUE, r.ok, 0, FALSE, "")]
                /\ file' = IF p = "P1" /\ r.written THEN r.lines ELSE file
    /\ UNCHANGED <<today, last, since>>

(* Ctrl+C or SIGTERM in the loop: cleanup_pid, then the process ends *)
Interrupt(pid) ==
    /\ watch.procs[pid].pc = "watching"
    /\ watch' = [watch EXCEPT
                    !.registry = cleanup_pid(watch, pid, watch.procs[pid].path),
                    !.procs[pid].pc = "stopped",
                    !.event = Event("interrupt", pid, watch.procs[pid].path, FALSE, FALSE, 0,
                                    FALSE, "")]
    /\ UNCHANGED <<file, today, last, since>>

(* the process is killed, its terminal is closed: no handler runs *)
Kill(pid) ==
    /\ watch.procs[pid].pc = "watching"
    /\ watch' = [watch EXCEPT
                    !.procs[pid].pc = "killed",
                    !.event = Event("kill", pid, watch.procs[pid].path, FALSE, FALSE, 0,
                                    FALSE, "")]
    /\ UNCHANGED <<file, today, last, since>>

(* iatf unwatch <p>: ok tells that an entry was deleted *)
Unwatch(p) ==
    /\ watch' =
          IF watch.state = "missing"
          THEN [watch EXCEPT !.event = Event("unwatch", 0, p, FALSE, FALSE, 0, FALSE, "")]
          ELSE IF watch.state = "corrupt"
          THEN [watch EXCEPT !.event = Event("unwatch", 0, p, FALSE, FALSE, 1, FALSE, "")]
          ELSE IF watch.registry[p] # 0
          THEN [watch EXCEPT !.registry[p] = 0,
                             !.event = Event("unwatch", 0, p, FALSE, TRUE, 0, FALSE, "")]
          ELSE [watch EXCEPT !.event = Event("unwatch", 0, p, FALSE, FALSE, 1, FALSE, "")]
    /\ UNCHANGED <<file, today, last, since>>

(* iatf rebuild <p>, without a terminal or with the line typed when it asks *)
ManualRebuild(p) ==
    \E r \in {rebuild_index(IF p = "P1" THEN file ELSE OtherDocument, <<today, 0>>)} :
        \E reply \in {"notty", "", "y", "n"} :
            LET guard == check_watched_file(watch, p, reply)
            IN  /\ watch' =
                      IF ~guard.proceed
                      THEN [watch EXCEPT
                               !.event = Event("rebuild", 0, p, FALSE, FALSE, 1, guard.asked,
                                               reply)]
                      ELSE [watch EXCEPT
                               !.procs = [q \in 1..MaxPid |->
                                             IF r.written /\ watch.procs[q].pc = "watching"
                                                /\ watch.procs[q].path = p
                                             THEN [watch.procs[q] EXCEPT !.mtime = "external"]
                                             ELSE watch.procs[q]],
                               !.event = Event("rebuild", 0, p, TRUE, r.ok,
                                               IF r.ok THEN 0 ELSE 1, guard.asked,
                                               IF guard.asked THEN reply ELSE "")]
                /\ file' = IF guard.proceed /\ p = "P1" /\ r.written THEN r.lines ELSE file
                /\ UNCHANGED <<today, last, since>>

(* an editor saves the file at p *)
Modify(p) ==
    /\ file' \in IF p = "P1" THEN WatchDocuments ELSE {file}
    /\ watch' = [watch EXCEPT
                    !.procs = [q \in 1..MaxPid |->
                                  IF watch.procs[q].pc = "watching" /\ watch.procs[q].path = p
                                  THEN [watch.procs[q] EXCEPT !.mtime = "external"]
                                  ELSE watch.procs[q]],
                    !.event = Event("modify", 0, p, FALSE, FALSE, 0, FALSE, "")]
    /\ UNCHANGED <<today, last, since>>

(* the registry file is left with text that does not parse *)
Damage ==
    /\ watch.state = "ok"
    /\ watch' = [watch EXCEPT
                    !.state = "corrupt",
                    !.event = Event("damage", 0, "", FALSE, FALSE, 0, FALSE, "")]
    /\ UNCHANGED <<file, today, last, since>>

NextWatch ==
    \/ \E pid \in 1..MaxPid, p \in Paths : WatchStart(pid, p)
    \/ \E pid \in 1..MaxPid : PollTick(pid)
    \/ \E pid \in 1..MaxPid : Interrupt(pid)
    \/ \E pid \in 1..MaxPid : Kill(pid)
    \/ \E p \in Paths : Unwatch(p)
    \/ \E p \in {"P1"} : ManualRebuild(p)
    \/ \E p \in {"P1"} : Modify(p)
    \/ Damage

SpecWatch == InitWatch /\ [][NextWatch]_vars

(* the watchers and unwatch alone, nobody writing the files or the registry *)
(* behind them, and every watch loop getting its turns: time.sleep(1) returns *)
NextRegistry ==
    \/ \E pid \in 1..MaxPid, p \in Paths : WatchStart(pid, p)
    \/ \E pid \in 1..MaxPid : PollTick(pid)
    \/ \E pid \in 1..MaxPid : Interrupt(pid)
    \/ \E pid \in 1..MaxPid : Kill(pid)
    \/ \E p \in Paths : Unwatch(p)

FairWatch ==
    InitWatch /\ [][NextRegistry]_vars /\ \A pid \in 1..MaxPid : WF_vars(PollTick(pid))

----------------------------------------------------------------------------
(* validate on every short CONTENT region with valid nesting, with text and *)
(* blank lines inside and outside the sections                              *)

InitOutside ==
    /\ file \in {<<Decl, IndexMarker, ContentMarker>> \o c :
                    c \in Bodies({Open("a"), Open("b"), Close("a"), Close("b"),
                                  Blank, Text(1), Heading("T1")}, MaxBody, <<>>)}
    /\ today = 1
    /\ last = NoResult
    /\ since = NoHistory
    /\ watch = NoWatch

SpecOutside == InitOutside /\ [][NextMarkers]_vars

----------------------------------------------------------------------------
(* What the claims speak of *)

ContentStart(lines) == FirstContent(lines) + 1

Sections(lines) == parse_content_section(lines, ContentStart(lines))

(* the file is the output of a successful rebuild and was not edited since *)
JustRebuilt == since.rebuilt /\ since.edited = {}

(* the positions of the INDEX entry lines, of any level *)
EntryAt(lines) ==
    {i \in 1..FirstContent(lines) : lines[i].k = "ientry"}

(* the lines of the entry at position i: up to the blank line that ends it *)
EntryEnd(lines, i) == Min({j \in i..Len(lines) : IsBlank(lines[j])})

(* what the INDEX records for the entry at i: Created, Modified, Hash (0, 0, -1 if absent) *)
RecordedAt(lines, i) ==
    LET body == {j \in i..EntryEnd(lines, i) : TRUE}
        stamps == {j \in body : lines[j].k = "istamp"}
        hashes == {j \in body : lines[j].k = "ihash"}
    IN  [created |-> IF stamps = {} THEN 0 ELSE lines[Min(stamps)].a,
         modified |-> IF stamps = {} THEN 0 ELSE lines[Min(stamps)].b,
         hash |-> IF hashes = {} THEN -1 ELSE lines[Min(hashes)].a]

HasEntry(lines, id) == \E i \in EntryAt(lines) : lines[i].id = id

Recorded(lines, id) == RecordedAt(lines, CHOOSE i \in EntryAt(lines) : lines[i].id = id)

(* a step in which rebuild_index ran and returned True *)
RebuiltOk == last'.op = "rebuild" /\ last'.rc = 0 /\ today' = today

(* C1: after a successful rebuild every section's INDEX entry gives the lines at *)
(* which its opening and closing delimiters sit in the file as written.          *)
C1_IndexLinesExact ==
    (last.op = "rebuild" /\ last.rc = 0) =>
        \A i \in 1..Len(Sections(file)) :
            \E e \in EntryAt(file) :
                /\ file[e].id = Sections(file)[i].id
                /\ file[e].a = Sections(file)[i].start_line
                /\ file[e].b = Sections(file)[i].end_line
                /\ file[file[e].a] = Open(file[e].id)
                /\ file[file[e].b] = Close(file[e].id)

(* C2: round trip.  On a freshly rebuilt document, read by id prints exactly the *)
(* lines S..E that the INDEX entry of the id records, the first being {#id} and  *)
(* the last {/id}.                                                               *)
C2_ReadRoundTrip ==
    (last.op = "read" /\ last.rc = 0 /\ JustRebuilt) =>
        \E e \in EntryAt(file) :
            /\ file[e].id = last.arg
            /\ file[e].a >= 1 /\ file[e].b <= Len(file)
            /\ last.out = SubSeq(file, file[e].a, file[e].b)
            /\ last.out # <<>>
            /\ last.out[1] = Open(last.arg)
            /\ Last(last.out) = Close(last.arg)

(* the file without its "<!-- Generated: ... -->" comment *)
WithoutGenerated(lines) == SelectSeq(lines, LAMBDA l : l.k # "cgen")

(* C3: idempotence.  Rebuilding a freshly rebuilt document again on the same day *)
(* writes the same text, apart from the Generated comment.                       *)
C3_Idempotent ==
    [][(JustRebuilt /\ since.day = today /\ RebuiltOk)
          => WithoutGenerated(file') = WithoutGenerated(file)]_vars

(* the conditions on which rebuild must refuse *)
MustRefuse(lines) ==
    \/ validate_nesting(lines, ContentStart(lines)) # NoError
    \/ find_duplicate_section_ids(Sections(lines)) # <<>>
    \/ validate_references(lines, ContentStart(lines), Sections(lines)) # <<>>

C5_ValidAfterRebuild ==
    (last.op = "validate" /\ JustRebuilt) => last.errors = <<>>

SectionIds(lines) == {Sections(lines)[i].id : i \in 1..Len(Sections(lines))}

(* C6: staleness monotonicity.  From a rebuilt document with the body of exactly  *)
(* one section edited, a rebuild leaves Created, Modified and Hash of every other *)
(* section as the previous INDEX had them, and changes at most Modified and Hash  *)
(* of the edited one.                                                             *)
C6_OnlyEditedChanges ==
    [][(since.rebuilt /\ Cardinality(since.edited) = 1 /\ RebuiltOk /\ file' # file)
          => \A id \in SectionIds(file) :
                /\ HasEntry(file, id) /\ HasEntry(file', id)
                /\ id \notin since.edited => Recorded(file', id) = Recorded(file, id)
                /\ id \in since.edited
                      => Recorded(file', id).created = Recorded(file, id).created]_vars

(* the body of a section as the parser collects it *)
BodyOf(lines, id) ==
    LET i == CHOOSE h \in 1..Len(Sections(lines)) : Sections(lines)[h].id = id
    IN  Sections(lines)[i].content_lines

(* the rule of the claim, as stated: the dates rebuild writes for a section, from *)
(* its prior metadata `old` and its new hash                                      *)
ClaimedDates(old, new_hash, day) ==
    IF old.hash = -1
    THEN [created |-> day, modified |-> IF old.modified # 0 THEN old.modified ELSE day]
    ELSE IF old.hash = new_hash
    THEN [created |-> old.created, modified |-> old.modified]
    ELSE [created |-> IF old.created # 0 THEN old.created ELSE day, modified |-> day]

(* the rule as amended: Created is the prior Created whenever one is recorded *)
AmendedDates(old, new_hash, day) ==
    [created |-> IF old.created # 0 THEN old.created ELSE day,
     modified |-> IF old.hash = -1 THEN (IF old.modified # 0 THEN old.modified ELSE day)
                  ELSE IF old.hash = new_hash THEN old.modified
                  ELSE day]

DatesWritten(lines, id) ==
    [created |-> Recorded(lines, id).created, modified |-> Recorded(lines, id).modified]

(* C7 as claimed: with no prior hash Created is today; with an equal prior hash *)
(* Created and Modified are carried forward unchanged.                           *)
C7_RuleAsClaimed ==
    [][(RebuiltOk /\ file' # file)
          => \A id \in SectionIds(file) :
                DatesWritten(file', id) =
                    ClaimedDates(parse_index_metadata(file)[id],
                                 compute_content_hash(BodyOf(file, id)), today)]_vars

(* C7 as amended: Created is the prior Created that parse_index_metadata reads if *)
(* there is one, else today, whatever the hashes; Modified is the prior Modified  *)
(* if any else today when no prior hash is read, the prior Modified when the      *)
(* prior hash equals the new one, and today when it differs.                      *)
C7_Rule ==
    [][(RebuiltOk /\ file' # file)
          => \A id \in SectionIds(file) :
                DatesWritten(file', id) =
                    AmendedDates(parse_index_metadata(file)[id],
                                 compute_content_hash(BodyOf(file, id)), today)]_vars

(* a rebuild on a later day has found a section's hash changed and one unchanged: *)
(* an entry created on day 1 and modified on day 2 beside one still modified on 1 *)
C7_Witness ==
    /\ last.op = "rebuild" /\ last.rc = 0
    /\ \E i, j \in EntryAt(file) :
          /\ RecordedAt(file, i).created = 1 /\ RecordedAt(file, i).modified = 2
          /\ RecordedAt(file, j).created = 1 /\ RecordedAt(file, j).modified = 1

(* the sections nested deeper than level 2 *)
TooDeep(lines) == {i \in 1..Len(Sections(lines)) : Sections(lines)[i].level > 2}

(* C8: a document with a section deeper than level 2 is refused by rebuild, and *)
(* validate reports an error for each such section, with or without an INDEX.   *)
C8_DepthRejected ==
    /\ (last.op = "rebuild" /\ last.rc = 0) => TooDeep(file) = {}
    /\ (last.op = "validate" /\ validate_nesting(file, ContentStart(file)) = NoError)
          => \A i \in TooDeep(file) :
                \E j \in 1..Len(last.errors) :
                    last.errors[j] = Err("Section nesting exceeds 2 levels",
                                         Sections(file)[i].id, 0)

(* C9: with invalid nesting no command goes past the nesting check: rebuild *)
(* fails, read prints nothing and fails, graph prints nothing and fails.    *)
C9_NestingGate ==
    (FirstContent(file) # -1 /\ validate_nesting(file, ContentStart(file)) # NoError)
        => /\ last.op = "rebuild" => last.rc = 1
           /\ last.op = "read" => (last.rc = 1 /\ last.out = <<>>)
           /\ last.op = "graph" => (last.rc = 1 /\ last.graph = <<>>)

(* C10: with a duplicated id or an invalid reference, read and graph fail and *)
(* print nothing.                                                             *)
C10_StructuralGate ==
    (/\ FirstContent(file) # -1
     /\ validate_nesting(file, ContentStart(file)) = NoError
     /\ MustRefuse(file))
        => /\ last.op = "read" => (last.rc = 1 /\ last.out = <<>>)
           /\ last.op = "graph" => (last.rc = 1 /\ last.graph = <<>>)

----------------------------------------------------------------------------
(* References, graph and nesting *)

(* the line at p lies inside a fenced code block: an odd number of ``` lines *)
(* precede it in CONTENT                                                     *)
InsideFence(lines, p) ==
    Cardinality({q \in (ContentStart(lines) + 1)..(p - 1) :
                    is_code_fence_line(lines[q])}) % 2 = 1

ErrorSet == {last.errors[i] : i \in 1..Len(last.errors)}

(* C11: of the references in body lines outside fenced blocks, exactly those whose *)
(* target is no parsed section get "target section does not exist", and exactly    *)
(* those whose target is the innermost section containing them get "self-reference *)
(* not allowed"; a reference outside every section gets no self-reference error.   *)
C11_ReferenceRules ==
    last.op = "references" =>
        \A p \in (ContentStart(file) + 1)..Len(file) :
            \A j \in 1..Len(file[p].r) :
                (file[p].k = "text" /\ ~InsideFence(file, p)) =>
                    LET x == file[p].r[j]
                    IN  /\ Err("target section does not exist", x, p) \in ErrorSet
                              <=> x \notin SectionIds(file)
                        /\ Err("self-reference not allowed", x, p) \in ErrorSet
                              <=> (x \in SectionIds(file) /\ Enclosing(file, p) = x)

(* the only defect of the document is one self-reference *)
OnlySelfReference(lines) ==
    LET refs == extract_references(lines, ContentStart(lines))
    IN  /\ FirstContent(lines) # -1
        /\ validate_nesting(lines, ContentStart(lines)) = NoError
        /\ Sections(lines) # <<>>
        /\ find_duplicate_section_ids(Sections(lines)) = <<>>
        /\ TooDeep(lines) = {}
        /\ Len(refs) = 1
        /\ refs[1].target = refs[1].containing

(* C12: on a document whose only defect is one self-reference, rebuild leaves the *)
(* file as it was and reports one error, the self-reference, and nothing else.    *)
C12_OneErrorOnly ==
    [][(last'.op = "rebuild" /\ today' = today /\ OnlySelfReference(file))
          => /\ file' = file
             /\ last'.rc = 1
             /\ Len(last'.errors) = 1
             /\ last'.errors[1].msg = "self-reference not allowed"]_vars

(* the ids a graph row lists *)
Listed(row) == {row.refs[k] : k \in 1..Len(row.refs)}

(* a list of ids is sorted and has no duplicate *)
StrictlySorted(ids) ==
    \A h, k \in 1..Len(ids) : h < k => StrCode(ids[h]) < StrCode(ids[k])

(* C13: the incoming graph is the transpose of the outgoing graph of the same   *)
(* document: b is listed under a in the outgoing output exactly when a is listed *)
(* under b in the incoming output, and every listing is sorted, duplicate-free.  *)
C13_GraphTranspose ==
    (last.op = "graph" /\ last.rc = 0) =>
        LET other == graph_command(file, last.arg = "outgoing")
            outgoing == IF last.arg = "outgoing" THEN last.graph ELSE other.graph
            incoming == IF last.arg = "incoming" THEN last.graph ELSE other.graph
        IN  /\ other.rc = 0
            /\ Len(outgoing) = Len(incoming)
            /\ \A i \in 1..Len(outgoing) :
                  /\ outgoing[i].id = incoming[i].id
                  /\ StrictlySorted(outgoing[i].refs)
                  /\ StrictlySorted(incoming[i].refs)
            /\ \A i, j \in 1..Len(outgoing) :
                  outgoing[j].id \in Listed(outgoing[i])
                      <=> outgoing[i].id \in Listed(incoming[j])

(* the incoming graph of a document in which one section refers to another *)
C13_Witness ==
    /\ last.op = "graph" /\ last.rc = 0 /\ last.arg = "incoming"
    /\ \E i, j \in 1..Len(last.graph) :
          /\ last.graph[i].id # last.graph[j].id
          /\ last.graph[j].id \in Listed(last.graph[i])
          /\ last.graph[j].refs = <<>>

(* the ids open before line p, each closing delimiter that matches the innermost *)
(* open id having closed it                                                      *)
RECURSIVE OpenBefore(_, _)
OpenBefore(lines, p) ==
    IF p <= ContentStart(lines) + 1 THEN <<>>
    ELSE LET open == OpenBefore(lines, p - 1)
             line == lines[p - 1]
         IN  IF line.k = "open" THEN Append(open, line.id)
             ELSE IF line.k = "close" /\ open # <<>> /\ Last(open) = line.id
             THEN Front(open)
             ELSE open

(* the closing delimiters that do not match the innermost open id *)
BadCloses(lines) ==
    {p \in (ContentStart(lines) + 1)..Len(lines) :
        /\ lines[p].k = "close"
        /\ (OpenBefore(lines, p) = <<>> \/ Last(OpenBefore(lines, p)) # lines[p].id)}

OpenAtEnd(lines) == OpenBefore(lines, Len(lines) + 1)

(* C14: validate_nesting finds the nesting valid exactly when every closing       *)
(* delimiter matches the innermost open id and nothing is open at the end; if not *)
(* it returns one error: for the first close that does not match, "closing tag    *)
(* without matching opening", else "unclosed section" naming the innermost id     *)
(* still open.                                                                    *)
C14_NestingVerdict ==
    last.op = "nesting" =>
        IF BadCloses(file) # {}
        THEN last.errors = <<Err("Closing tag without matching opening",
                                 file[Min(BadCloses(file))].id, 0)>>
        ELSE IF OpenAtEnd(file) # <<>>
        THEN last.errors = <<Err("Unclosed section", Last(OpenAtEnd(file)), 0)>>
        ELSE last.errors = <<>> /\ last.rc = 0

(* the nesting check has named the inner of two sections left open *)
C14_Witness ==
    /\ last.op = "nesting"
    /\ Len(OpenAtEnd(file)) = 2
    /\ BadCloses(file) = {}
    /\ last.errors = <<Err("Unclosed section", OpenAtEnd(file)[2], 0)>>
    /\ OpenAtEnd(file)[1] # OpenAtEnd(file)[2]

----------------------------------------------------------------------------
(* validate *)

(* the positions of the INDEX entries between ===INDEX=== and ===CONTENT=== *)
IndexEntries(lines) ==
    {i \in EntryAt(lines) : i > IndexBefore(lines, FirstContent(lines)) + 1}

(* the INDEX entries and the parsed sections agree exactly: one entry per section, *)
(* with its line range, and no other entry                                         *)
IndexAgrees(lines) ==
    /\ \A e \in IndexEntries(lines) :
          \E i \in 1..Len(Sections(lines)) :
              /\ Sections(lines)[i].id = lines[e].id
              /\ Sections(lines)[i].start_line = lines[e].a
              /\ Sections(lines)[i].end_line = lines[e].b
    /\ \A i \in 1..Len(Sections(lines)) :
          Cardinality({e \in IndexEntries(lines) : lines[e].id = Sections(lines)[i].id}) = 1

CrossCheckMessages ==
    {"INDEX references missing CONTENT section", "CONTENT section missing from INDEX",
     "INDEX line range mismatch for section"}

(* C15: on a document with an INDEX and valid nesting, validate reports an error for *)
(* every INDEX entry whose id is no CONTENT section, an error for every entry whose  *)
(* line range is not that of the parsed section, and "CONTENT section missing from   *)
(* INDEX" for every section without an entry; and none of these when entries and     *)
(* sections agree exactly.                                                           *)
C15_CrossCheck ==
    (/\ last.op = "validate"
     /\ FirstContent(file) # -1
     /\ IndexBefore(file, FirstContent(file)) # -1
     /\ validate_nesting(file, ContentStart(file)) = NoError
     /\ find_duplicate_section_ids(Sections(file)) = <<>>)
        => /\ \A e \in IndexEntries(file) :
                 file[e].id \notin SectionIds(file)
                    => Err("INDEX references missing CONTENT section", file[e].id, 0)
                          \in ErrorSet
           /\ \A e \in IndexEntries(file) :
                 \A i \in 1..Len(Sections(file)) :
                    (/\ Sections(file)[i].id = file[e].id
                     /\ <<file[e].a, file[e].b>>
                           # <<Sections(file)[i].start_line, Sections(file)[i].end_line>>)
                        => \E err \in ErrorSet :
                              /\ err.id = file[e].id
                              /\ err.msg \in {"INDEX line range mismatch for section",
                                              "Duplicate INDEX section ID"}
           /\ \A id \in SectionIds(file) :
                 ~HasEntry(file, id)
                    => Err("CONTENT section missing from INDEX", id, 0) \in ErrorSet
           /\ IndexAgrees(file)
                 => \A err \in ErrorSet : err.msg \notin CrossCheckMessages

(* C16: validate exits non-zero exactly when it collected an error, so a run with *)
(* warnings only exits 0; and it never writes to the document.                    *)
C16_ExitStatus ==
    [][last'.op = "validate"
          => /\ last'.rc \in {0, 1}
             /\ last'.rc # 0 <=> last'.errors # <<>>
             /\ file' = file]_vars

(* validate has exited 0 on a document for which it had warnings only *)
C16_Witness ==
    /\ last.op = "validate"
    /\ last.rc = 0
    /\ last.errors = <<>>
    /\ last.warnings # <<>>

WarningSet == {last.warnings[i] : i \in 1..Len(last.warnings)}

HashMessages ==
    {"INDEX missing Content-Hash", "INDEX Content-Hash does not match CONTENT"}

(* the INDEX has no Content-Hash comment *)
NoContentHash(lines) ==
    \A i \in (IndexBefore(lines, FirstContent(lines)) + 1)..FirstContent(lines) :
        lines[i].k # "chash"

(* C18: a missing or mismatching Content-Hash is a warning of validate and never *)
(* an error; on a freshly rebuilt document validate has no content-hash warning; *)
(* once the CONTENT region differs from what the last rebuild left, validate     *)
(* warns that the hash does not match.                                           *)
C18_HashWarnings ==
    last.op = "validate" =>
        /\ \A err \in ErrorSet : err.msg \notin HashMessages
        /\ (FirstContent(file) # -1 /\ IndexBefore(file, FirstContent(file)) # -1
               /\ NoContentHash(file))
              => Err("INDEX missing Content-Hash", "", 0) \in WarningSet
        /\ JustRebuilt => \A w \in WarningSet : w.msg \notin HashMessages
        /\ (since.rebuilt /\ Drop(file, ContentStart(file)) # since.content)
              => Err("INDEX Content-Hash does not match CONTENT", "", 0) \in WarningSet

(* validate has warned of a stale hash, with no error, on a rebuilt document that *)
(* was edited since                                                               *)
C18_Witness ==
    /\ last.op = "validate"
    /\ since.rebuilt /\ Drop(file, ContentStart(file)) # since.content
    /\ Err("INDEX Content-Hash does not match CONTENT", "", 0) \in WarningSet
    /\ \A err \in ErrorSet : err.msg \notin HashMessages

(* C19: the Content-Hash comment a rebuild writes holds the full SHA-256 digest of *)
(* the CONTENT region, all FullHashLen hex characters of it.                       *)
C19_FullHashRecorded ==
    (last.op = "rebuild" /\ last.rc = 0) =>
        \E i \in 1..FirstContent(file) :
            /\ file[i].k = "chash"
            /\ file[i].lv = FullHashLen
            /\ file[i].a = Sha256Hex7(Drop(file, ContentStart(file)))
            /\ file[i].b = Sha256Rest(Drop(file, ContentStart(file)))

MarkerMessages ==
    {"Missing CONTENT section", "Multiple INDEX sections found",
     "Multiple CONTENT sections found", "INDEX section appears after CONTENT"}

(* the first ===INDEX=== comes after the first ===CONTENT=== *)
IndexAfterContent(lines) ==
    /\ Positions(lines, "INDEX") # {}
    /\ Positions(lines, "CONTENT") # {}
    /\ Min(Positions(lines, "INDEX")) > Min(Positions(lines, "CONTENT"))

(* C17 as claimed: validate reports an error whenever the document does not have *)
(* exactly one ===INDEX=== and exactly one ===CONTENT===, zero INDEX markers      *)
(* included, and whenever INDEX comes after CONTENT.                              *)
C17_AsClaimed ==
    last.op = "validate" =>
        /\ (Cardinality(Positions(file, "INDEX")) # 1
               \/ Cardinality(Positions(file, "CONTENT")) # 1)
              => \E err \in ErrorSet : err.msg \in MarkerMessages
        /\ IndexAfterContent(file)
              => Err("INDEX section appears after CONTENT", "", 0) \in ErrorSet

(* C17 as amended: validate reports an error exactly for no ===CONTENT=== marker, *)
(* for more than one ===CONTENT===, for more than one ===INDEX===, and for a      *)
(* first ===INDEX=== after the first ===CONTENT===; no ===INDEX=== at all is a    *)
(* warning and not an error.                                                      *)
C17_MarkerRule ==
    last.op = "validate" =>
        /\ Err("Missing CONTENT section", "", 0) \in ErrorSet
              <=> Positions(file, "CONTENT") = {}
        /\ Err("Multiple CONTENT sections found", "", 0) \in ErrorSet
              <=> Cardinality(Positions(file, "CONTENT")) > 1
        /\ Err("Multiple INDEX sections found", "", 0) \in ErrorSet
              <=> Cardinality(Positions(file, "INDEX")) > 1
        /\ Err("INDEX section appears after CONTENT", "", 0) \in ErrorSet
              <=> IndexAfterContent(file)
        /\ Positions(file, "INDEX") = {}
              => /\ Err("No INDEX section", "", 0) \in WarningSet
                 /\ \A err \in ErrorSet : err.msg \in MarkerMessages
                       => err.msg \in {"Missing CONTENT section",
                                       "Multiple CONTENT sections found"}

(* validate has reported a document with one marker of each kind in the wrong order *)
C17_Witness ==
    /\ last.op = "validate"
    /\ Cardinality(Positions(file, "INDEX")) = 1
    /\ Cardinality(Positions(file, "CONTENT")) = 1
    /\ IndexAfterContent(file)
    /\ Err("INDEX section appears after CONTENT", "", 0) \in ErrorSet

----------------------------------------------------------------------------
(* read by title *)

(* the id the claim resolves a query to: the first INDEX entry whose title equals *)
(* the query without regard to case, else the first whose title contains it, else *)
(* "" for none                                                                    *)
Resolved(lines, title) ==
    LET entries == Ascending(IndexEntries(lines))
        exact == {j \in 1..Len(entries) :
                     Lower(Spelling(lines[entries[j]].t)) = Lower(Spelling(title))}
        contains == {j \in 1..Len(entries) :
                        Contains(Lower(Spelling(lines[entries[j]].t)),
                                 Lower(Spelling(title)))}
    IN  IF exact # {} THEN lines[entries[Min(exact)]].id
        ELSE IF contains # {} THEN lines[entries[Min(contains)]].id
        ELSE ""

(* C20: on a rebuilt document, read by title resolves the query to the first INDEX *)
(* entry whose title equals it case-insensitively, else to the first whose title   *)
(* contains it; with no such entry it fails, otherwise it prints what read by id   *)
(* prints for that id.                                                             *)
C20_TitleResolution ==
    (last.op = "title" /\ JustRebuilt) =>
        IF Resolved(file, last.arg) = ""
        THEN last.rc = 1 /\ last.out = <<>>
        ELSE /\ last.rc = read_command(file, Resolved(file, last.arg)).rc
             /\ last.out = read_command(file, Resolved(file, last.arg)).out
             /\ last.out # <<>>
             /\ last.out[1] = Open(Resolved(file, last.arg))

----------------------------------------------------------------------------
(* The parser and the extractor *)

(* the lines of section i of the parse S that belong to no section nested in it *)
OwnLines(S, i) ==
    {p \in (S[i].start_line + 1)..(S[i].end_line - 1) :
        \A j \in 1..Len(S) :
            (j # i /\ S[j].start_line > S[i].start_line)
                => ~(S[j].start_line <= p /\ p <= S[j].end_line)}

(* C21: the title of a section is its id until a heading line comes in its own *)
(* body, and then the title of the first such heading, whatever headings follow *)
C21_FirstHeadingTitles ==
    last.op = "parse" =>
        \A i \in 1..Len(last.out) :
            LET heads == {p \in OwnLines(last.out, i) : file[p].k = "head"}
            IN  last.out[i].title = IF heads = {} THEN last.out[i].id
                                    ELSE file[Min(heads)].t

(* the header of a section as the claim reads it, from line p on: the summary its *)
(* annotations give, and the first line that is neither an annotation nor the     *)
(* continuation of a summary                                                      *)
RECURSIVE HeaderScan(_, _, _, _)
HeaderScan(lines, p, summary, continuation) ==
    IF p > Len(lines) THEN [summary |-> summary, end |-> p]
    ELSE IF lines[p].k = "asum" THEN HeaderScan(lines, p + 1, lines[p].s, TRUE)
    ELSE IF lines[p].k = "acreated" THEN HeaderScan(lines, p + 1, summary, FALSE)
    ELSE IF lines[p].k = "aother" THEN HeaderScan(lines, p + 1, summary, continuation)
    ELSE IF lines[p].k = "cont" /\ continuation
    THEN HeaderScan(lines, p + 1, Append(summary, lines[p].t), TRUE)
    ELSE [summary |-> summary, end |-> p]

(* the lines at the positions of P, in order *)
LinesAt(lines, P) == [j \in 1..Cardinality(P) |-> lines[Ascending(P)[j]]]

(* C27: the header of a section ends for good at the first line after {#id} that *)
(* is neither an annotation nor a summary continuation, the {#child} of a nested *)
(* section included: the summary is what the annotations before that line give,  *)
(* and every later line of the section's own, '@' lines too, is a body line.     *)
C27_HeaderEndsOnce ==
    last.op = "parse" =>
        \A i \in 1..Len(last.out) :
            LET header == HeaderScan(file, last.out[i].start_line + 1, <<>>, FALSE)
            IN  /\ last.out[i].summary = header.summary
                /\ last.out[i].content_lines =
                       LinesAt(file, {p \in OwnLines(last.out, i) : p >= header.end})

(* C28: on CONTENT with valid nesting the parser returns one section per opening *)
(* delimiter, in the order of the openings, each closed at its own {/id} after   *)
(* its {#id}, at level 1 plus the number of sections open at its opening, and,   *)
(* if nested, strictly inside the span of a section one level up.                *)
C28_PreOrderSpans ==
    last.op = "parse" =>
        LET S == last.out
        IN  /\ Len(S) = Cardinality({p \in (ContentStart(file) + 1)..Len(file) :
                                        file[p].k = "open"})
            /\ \A i \in 1..Len(S) :
                  /\ S[i].start_line < S[i].end_line
                  /\ file[S[i].start_line] = Open(S[i].id)
                  /\ file[S[i].end_line] = Close(S[i].id)
                  /\ S[i].level = 1 + Len(OpenBefore(file, S[i].start_line))
                  /\ i > 1 => S[i - 1].start_line < S[i].start_line
                  /\ S[i].level > 1
                        => \E j \in 1..(i - 1) :
                              /\ S[j].level = S[i].level - 1
                              /\ S[j].start_line < S[i].start_line
                              /\ S[i].end_line < S[j].end_line

(* the parser has returned a section and the section nested in it *)
C28_Witness ==
    /\ last.op = "parse"
    /\ Len(last.out) = 2
    /\ last.out[1].level = 1
    /\ last.out[2].level = 2
    /\ last.out[1].start_line < last.out[2].start_line
    /\ last.out[2].end_line < last.out[1].end_line

(* C29: the containing section extract_references records for a reference is the *)
(* innermost section the parser has open at that line, none when none is open.   *)
C29_SameStack ==
    last.op = "extract" =>
        \A k \in 1..Len(last.out) :
            last.out[k].containing = Enclosing(file, last.out[k].line)

(* the fence flag at line p: an odd number of ``` lines precede it in CONTENT *)
FlagSet(lines, p) ==
    Cardinality({q \in (ContentStart(lines) + 1)..(p - 1) : lines[q] = Fence}) % 2 = 1

(* the reference markers on the lines that are no delimiter and no ``` line and *)
(* are scanned with the flag clear                                              *)
MarkersOutsideFences(lines) ==
    UNION {{<<p, lines[p].r[j]>> : j \in 1..Len(lines[p].r)} :
              p \in {q \in (ContentStart(lines) + 1)..Len(lines) :
                        /\ lines[q].k \notin {"open", "close"}
                        /\ lines[q] # Fence
                        /\ ~FlagSet(lines, q)}}

(* C30: only a ``` line toggles the fence flag, a line like ```python does not; *)
(* extract_references records exactly the reference markers of the non-delimiter *)
(* lines scanned with the flag clear, and none of a line scanned with it set.    *)
C30_FenceFlag ==
    last.op = "extract" =>
        /\ {<<last.out[k].line, last.out[k].target>> : k \in 1..Len(last.out)}
              = MarkersOutsideFences(file)
        /\ Len(last.out) = Cardinality(MarkersOutsideFences(file))

(* the extractor has recorded a reference that follows a ```python line and has *)
(* ignored one that follows a ``` line                                          *)
C30_Witness ==
    /\ last.op = "extract"
    /\ \E p \in 1..(Len(file) - 1) :
          /\ file[p] = FenceLang
          /\ \E k \in 1..Len(last.out) : last.out[k].line = p + 1
    /\ \E q \in 1..Len(file) :
          /\ FlagSet(file, q)
          /\ file[q].r # <<>>
          /\ \A k \in 1..Len(last.out) : last.out[k].line # q

----------------------------------------------------------------------------
(* Watching *)

(* the step taken is the one of this kind that the next state's event records *)
Stepped(op) == watch'.event.op = op /\ watch'.event # watch.event

(* C22: once unwatch has deleted the entry of a path, every loop watching that *)
(* path sees the removal on its next turn and ends: with the loops getting     *)
(* their turns, a successful unwatch of P leads to the watcher of P no longer  *)
(* watching.                                                                   *)
C22_UnwatchStopsWatcher ==
    \A pid \in 1..MaxPid :
        (/\ watch.event.op = "unwatch"
         /\ watch.event.ok
         /\ watch.procs[pid].pc = "watching"
         /\ watch.procs[pid].path = watch.event.path)
            ~> (watch.procs[pid].pc # "watching")

C25_FailureKeepsWatching ==
    [][\A pid \in 1..MaxPid :
          (Stepped("tick") /\ watch'.event.pid = pid) =>
              LET p == watch.procs[pid].path
                  due == /\ watch.state = "ok"
                         /\ watch.registry[p] # 0
                         /\ watch.procs[pid].mtime # "seen"
              IN  /\ watch'.event.rebuilt = due
                  /\ (watch'.event.rebuilt /\ ~watch'.event.ok) =>
                        /\ watch'.procs[pid].pc = "watching"
                        /\ watch'.procs[pid].path = p
                        /\ watch'.registry = watch.registry
                        /\ watch'.state = watch.state
      ]_vars

(* a rebuild has failed in the loop of a watcher that is still watching and *)
(* still registered                                                         *)
C25_Witness ==
    /\ watch.event.op = "tick"
    /\ watch.event.rebuilt
    /\ ~watch.event.ok
    /\ watch.procs[watch.event.pid].pc = "watching"
    /\ watch.registry[watch.event.path] = watch.event.pid

(* C26: a watcher rebuilds once for each modification another process makes to *)
(* the file: a turn of its loop rebuilds only when the file was written by     *)
(* another process since the turn before, never on account of its own write.   *)
C26_OneRebuildPerModification ==
    [][\A pid \in 1..MaxPid :
          (Stepped("tick") /\ watch'.event.pid = pid /\ watch'.event.rebuilt)
              => watch.procs[pid].mtime = "external"
      ]_vars

----------------------------------------------------------------------------
(* Content outside the sections *)

(* the non-blank CONTENT lines, delimiters apart, with no section open *)
OutsideLines(lines) ==
    {p \in (ContentStart(lines) + 1)..Len(lines) :
        /\ lines[p].k \notin {"open", "close", "blank"}
        /\ OpenBefore(lines, p) = <<>>}

(* C31: when the nesting is valid, validate reports "content outside section  *)
(* block" once, for the first non-blank CONTENT line outside every open       *)
(* section, and not at all when every such line is inside a section.          *)
C31_OutsideOnce ==
    (last.op = "validate" /\ BadCloses(file) = {} /\ OpenAtEnd(file) = <<>>) =>
        SelectSeq(last.errors, LAMBDA e : e.msg = "Content outside section block")
            = IF OutsideLines(file) = {} THEN <<>>
              ELSE <<Err("Content outside section block", "", Min(OutsideLines(file)))>>

(* validate has reported the first of two lines outside the sections, which *)
(* follows a blank line and a section                                       *)
C31_Witness ==
    /\ last.op = "validate"
    /\ Cardinality(OutsideLines(file)) >= 2
    /\ \E p \in 1..Len(file) : file[p].k = "blank" /\ p < Min(OutsideLines(file))
    /\ \E p \in 1..Len(file) : file[p].k = "close" /\ p < Min(OutsideLines(file))
    /\ Err("Content outside section block", "", Min(OutsideLines(file))) \in ErrorSet

----------------------------------------------------------------------------
(* The two renderings of the INDEX *)

(* the INDEX as written: from ===INDEX=== to the line before the blank line *)
(* that precedes ===CONTENT===                                              *)
WrittenIndex(lines) ==
    SubSeq(lines, IndexBefore(lines, FirstContent(lines)) + 1, ContentStart(lines) - 2)

(* the first rendering, from the sections as parsed before the rebuild *)
FirstRendering(lines, day) ==
    generate_index([i \in 1..Len(Sections(lines)) |->
                       Restamp(Sections(lines)[i], parse_index_metadata(lines), day)],
                   Sha256Hex7(Drop(lines, ContentStart(lines))), <<day, 0>>)

(* C32: one correction pass is enough.  The INDEX that a rebuild writes, rendered *)
(* after the sections were shifted by delta, has as many lines as the first       *)
(* rendering, so the delta computed from it is the delta that was applied to      *)
(* every section's start and end line.                                            *)
C32_OnePassSuffices ==
    [][RebuiltOk =>
          LET index_end == FirstContent(file)
              header_end == IF IndexBefore(file, index_end) # -1
                            THEN IndexBefore(file, index_end)
                            ELSE HeaderEndNoIndex(file)
              second == WrittenIndex(file')
              delta == (Len(second) + 1) - (index_end - header_end)
              entries == Ascending(EntryAt(file'))
          IN  /\ Len(second) = Len(FirstRendering(file, today))
              /\ Len(entries) = Len(Sections(file))
              /\ \A i \in 1..Len(entries) :
                    /\ file'[entries[i]].a = Sections(file)[i].start_line + delta
                    /\ file'[entries[i]].b = Sections(file)[i].end_line + delta
      ]_vars

(* a rebuild has written an INDEX where there was none, moving a section with a *)
(* summary and the sections after it down                                       *)
C32_Witness ==
    /\ last.op = "rebuild"
    /\ last.rc = 0
    /\ since.rebuilt
    /\ Len(Sections(file)) >= 2
    /\ \E i \in 1..Len(file) : file[i].k = "istamp"
    /\ \A i \in 1..Len(Sections(file)) : Sections(file)[i].start_line >= 10

----------------------------------------------------------------------------
(* The registry is read first at every turn *)

(* C33: at every turn of the loop the watcher reads the registry before it looks *)
(* at the file.  With no entry for its path it leaves the loop, rebuilds nothing *)
(* and leaves the registry as it is; with a registry that cannot be read it      *)
(* leaves the loop after its cleanup, which can only remove its own entry, and   *)
(* rebuilds nothing; it rebuilds only when the entry is there and the file is    *)
(* newer than the last time seen.                                                *)
C33_RegistryFirst ==
    [][Stepped("tick") =>
          LET pid == watch'.event.pid
              p == watch'.event.path
          IN  /\ watch.procs[pid].pc = "watching"
              /\ watch.procs[pid].path = p
              /\ (watch.state = "ok" /\ watch.registry[p] = 0) =>
                    /\ watch'.procs[pid].pc = "stopped"
                    /\ ~watch'.event.rebuilt
                    /\ watch'.registry = watch.registry
                    /\ watch'.state = watch.state
                    /\ file' = file
              /\ watch.state # "ok" =>
                    /\ watch'.procs[pid].pc = "stopped"
                    /\ ~watch'.event.rebuilt
                    /\ watch'.state = watch.state
                    /\ \A q \in Paths :
                          watch'.registry[q] # watch.registry[q] =>
                             q = p /\ watch.registry[q] = pid /\ watch'.registry[q] = 0
                    /\ file' = file
              /\ (watch'.event.rebuilt \/ file' # file) =>
                    /\ watch.state = "ok"
                    /\ watch.registry[p] # 0
                    /\ watch.procs[pid].mtime # "seen"
              /\ (watch.state = "ok" /\ watch.registry[p] # 0) =>
                    /\ watch'.procs[pid].pc = "watching"
                    /\ watch'.event.rebuilt = (watch.procs[pid].mtime # "seen")
      ]_vars

(* a watcher whose entry was removed while a modification of its file was *)
(* pending has left the loop at its turn, and nothing was rebuilt         *)
C33_Witness ==
    /\ watch.event.op = "tick"
    /\ ~watch.event.rebuilt
    /\ watch.state = "ok"
    /\ watch.registry[watch.event.path] = 0
    /\ watch.procs[watch.event.pid].pc = "stopped"
    /\ watch.procs[watch.event.pid].mtime = "external"

----------------------------------------------------------------------------
(* What a rebuild leaves alone: the file header and the CONTENT *)

MaxHeader == 3    \* lines between the format declaration and the first marker

(* headers of blank lines, @ lines and notes, with and without an INDEX *)
HeaderDocuments ==
    {Doc(<<Decl>> \o h \o ix, Sec("a", <<Text(1)>>)) :
        h \in Bodies({Blank, Meta, Junk}, MaxHeader, <<>>),
        ix \in {<<>>, <<IndexMarker, Junk>>}}

InitHeader ==
    /\ file \in HeaderDocuments
    /\ today = 1
    /\ last = NoResult
    /\ since = NoHistory
    /\ watch = NoWatch

NextHeader == Rebuild \/ NextDay

SpecHeader == InitHeader /\ [][NextHeader]_vars

(* the lines before the INDEX, or before ===CONTENT=== when there is no INDEX *)
HeaderLines(lines) ==
    IF IndexBefore(lines, FirstContent(lines)) # -1
    THEN Take(lines, IndexBefore(lines, FirstContent(lines)))
    ELSE Take(lines, FirstContent(lines))

(* C34: a rebuild changes nothing outside the INDEX.  In the file it writes, the *)
(* lines from ===CONTENT=== to the end are those of the input, and the lines     *)
(* before the INDEX are those of the input with the blank lines at their end     *)
(* made exactly one.                                                             *)
C34_FrameOutsideIndex ==
    [][RebuiltOk =>
          /\ Drop(file', FirstContent(file')) = Drop(file, FirstContent(file))
          /\ HeaderLines(file') = TrimTrailingBlank(HeaderLines(file)) \o <<Blank>>
      ]_vars

----------------------------------------------------------------------------
(* Each line belongs to one section *)

(* the one line that an edit has rewritten *)
EditedLines == {p \in 1..Len(file) : file'[p] # file[p]}

(* C38: a CONTENT line is counted in the body lines, and so in the hash and the *)
(* word count, of the innermost section open at that line and of no other;      *)
(* delimiter lines and the annotation lines of a section's header are counted   *)
(* in none.  So an edit of a line of a section's body leaves the hash and the   *)
(* word count of every other section, its parent's too, as they were.  The       *)
(* sections are those of a CONTENT whose nesting is valid.                       *)
C38_InnermostOnly ==
    /\ [](BadCloses(file) = {} /\ OpenAtEnd(file) = <<>> =>
             LET S == Sections(file)
             IN  \A i \in 1..Len(S) :
                    \E P \in SUBSET OwnLines(S, i) :
                       /\ S[i].content_lines = LinesAt(file, P)
                       /\ \A p \in P :
                             /\ file[p].k \notin {"open", "close"}
                             /\ p >= HeaderScan(file, S[i].start_line + 1, <<>>, FALSE).end
                       /\ \A p \in OwnLines(S, i) :
                             file[p].k \in {"text", "head", "blank", "fence"} => p \in P)
    /\ [][(last'.op = "edit" /\ file' # file /\ BadCloses(file) = {} /\ OpenAtEnd(file) = <<>>) =>
             LET S == Sections(file)
                 T == Sections(file')
             IN  /\ Len(T) = Len(S)
                 /\ \A i \in 1..Len(S) :
                       (EditedLines \cap OwnLines(S, i) = {}) =>
                          /\ compute_content_hash(T[i].content_lines)
                                = compute_content_hash(S[i].content_lines)
                          /\ count_words(T[i].content_lines) = count_words(S[i].content_lines)
         ]_vars

(* the body of a nested section was edited: its words changed, and its parent *)
(* has text of its own                                                        *)
C38_Witness ==
    /\ last.op = "edit"
    /\ \E i, j \in 1..Len(Sections(file)) :
          /\ Sections(file)[i].id = last.arg
          /\ Sections(file)[i].level = 2
          /\ count_words(Sections(file)[i].content_lines) > 1
          /\ Sections(file)[j].level = 1
          /\ Sections(file)[j].start_line < Sections(file)[i].start_line
          /\ Sections(file)[i].end_line < Sections(file)[j].end_line
          /\ Sections(file)[j].content_lines # <<>>

----------------------------------------------------------------------------
(* A rebuild and an editor on the same file.  rebuild_index reads the file,   *)
(* computes, and writes it: the read and the write are two steps, and another *)
(* process may save the file between them.                                    *)

(* filepath.read_text: the rebuild holds the lines it has read *)
ReadForRebuild ==
    /\ last.op # "read"
    /\ last' = Result("read", "", 0, file, <<>>, <<>>, <<>>)
    /\ UNCHANGED <<file, today, since, watch>>

(* an editor saves the file with one body text line rewritten *)
Save ==
    \E p \in 1..Len(file) :
        /\ FirstContent(file) # -1
        /\ p > FirstContent(file) + 1
        /\ file[p].k = "text" /\ file[p].r = <<>>
        /\ file' = [file EXCEPT ![p] = Text(3 - file[p].a)]
        /\ since' = [since EXCEPT !.edited = @ \cup {Enclosing(file, p)}]
        /\ UNCHANGED <<today, last, watch>>

(* the rest of rebuild_index, on the lines read: filepath.write_text when *)
(* nothing is wrong with them                                             *)
WriteRebuilt ==
    /\ last.op = "read"
    /\ \E r \in {rebuild_index(last.out, <<today, 0>>)} :
          /\ file' = IF r.written THEN r.lines ELSE file
          /\ last' = Result("rebuild", "", IF r.ok THEN 0 ELSE 1, <<>>, r.errors, <<>>, <<>>)
          /\ since' = IF r.ok
                       THEN [rebuilt |-> TRUE, day |-> today, edited |-> {},
                             content |-> Drop(r.lines, FirstContent(r.lines) + 1)]
                       ELSE since
    /\ UNCHANGED <<today, watch>>

NextSave == ReadForRebuild \/ Save \/ WriteRebuilt

SpecSave == Init /\ [][NextSave]_vars

(* C37: a rebuild discards no edit that it did not read.  When another process *)
(* has changed the document between the rebuild's read and its write, the file *)
(* after the write still has the change: its CONTENT is the CONTENT that was   *)
(* in the file just before the write.                                          *)
C37_EditSurvives ==
    [][(last.op = "read" /\ last'.op = "rebuild") =>
          Drop(file', FirstContent(file')) = Drop(file, FirstContent(file))
      ]_vars

----------------------------------------------------------------------------
(* The registry under concurrent commands.  watch, unwatch and cleanup_pid each *)
(* read WATCH_STATE_FILE, change their copy, and write the copy back: the read  *)
(* and the write are two steps, and other processes run between them.  snap is  *)
(* the copy a process holds; the unwatch command in progress holds its copy in  *)
(* last.out.  The registry file exists and parses.                              *)

InitRace ==
    /\ file = OtherDocument
    /\ today = 1
    /\ last = NoResult
    /\ since = NoHistory
    /\ watch = [NoWatch EXCEPT
                   !.state = "ok",
                   !.procs = [w \in 1..MaxPid |->
                                 [pc |-> "none", path |-> "", mtime |-> "seen",
                                  snap |-> NoWatch.registry]]]

(* watch_command: watch_state = json.loads(WATCH_STATE_FILE.read_text()) *)
RegisterRead(pid, p) ==
    /\ watch.procs[pid].pc = "none"
    /\ watch' = [watch EXCEPT
                    !.procs[pid] = [pc |-> "registering", path |-> p, mtime |-> "seen",
                                    snap |-> watch.registry]]
    /\ UNCHANGED <<file, today, last, since>>

(* watch_command: watch_state[str(path)] = {..., "pid": os.getpid()}, write_text *)
RegisterWrite(pid) ==
    /\ watch.procs[pid].pc = "registering"
    /\ watch' = [watch EXCEPT
                    !.registry = [watch.procs[pid].snap EXCEPT ![watch.procs[pid].path] = pid],
                    !.procs[pid].pc = "watching",
                    !.event = Event("watch", pid, watch.procs[pid].path, FALSE, TRUE, 0,
                                    FALSE, "")]
    /\ UNCHANGED <<file, today, last, since>>

(* Ctrl+C, SIGTERM or the file gone: cleanup_pid reads the registry *)
CleanupRead(pid) ==
    /\ watch.procs[pid].pc = "watching"
    /\ watch' = [watch EXCEPT !.procs[pid].pc = "cleaning",
                              !.procs[pid].snap = watch.registry]
    /\ UNCHANGED <<file, today, last, since>>

(* cleanup_pid: when the entry read carries this pid, delete it and write the *)
(* copy; then the process ends                                                *)
CleanupWrite(pid) ==
    /\ watch.procs[pid].pc = "cleaning"
    /\ watch' = [watch EXCEPT
                    !.registry = IF watch.procs[pid].snap[watch.procs[pid].path] = pid
                                 THEN [watch.procs[pid].snap EXCEPT
                                          ![watch.procs[pid].path] = 0]
                                 ELSE watch.registry,
                    !.procs[pid].pc = "stopped",
                    !.event = Event("interrupt", pid, watch.procs[pid].path, FALSE, FALSE, 0,
                                    FALSE, "")]
    /\ UNCHANGED <<file, today, last, since>>

(* unwatch_command: watch_state = json.loads(WATCH_STATE_FILE.read_text()) *)
UnwatchRead(p) ==
    /\ last.op # "unwatch"
    /\ last' = Result("unwatch", p, 0, watch.registry, <<>>, <<>>, <<>>)
    /\ UNCHANGED <<file, today, since, watch>>

(* unwatch_command: when the path is in the copy, delete it and write the copy *)
UnwatchWrite ==
    /\ last.op = "unwatch"
    /\ watch' = [watch EXCEPT
                    !.registry = IF last.out[last.arg] # 0
                                 THEN [last.out EXCEPT ![last.arg] = 0]
                                 ELSE watch.registry,
                    !.event = Event("unwatch", 0, last.arg, FALSE, last.out[last.arg] # 0,
                                    IF last.out[last.arg] # 0 THEN 0 ELSE 1, FALSE, "")]
    /\ last' = Result("unwatched", last.arg, IF last.out[last.arg] # 0 THEN 0 ELSE 1,
                      <<>>, <<>>, <<>>, <<>>)
    /\ UNCHANGED <<file, today, since>>

NextRace ==
    \/ \E pid \in 1..MaxPid, p \in Paths : RegisterRead(pid, p)
    \/ \E pid \in 1..MaxPid : RegisterWrite(pid)
    \/ \E pid \in 1..MaxPid : CleanupRead(pid)
    \/ \E pid \in 1..MaxPid : CleanupWrite(pid)
    \/ \E p \in Paths : UnwatchRead(p)
    \/ UnwatchWrite

SpecRace == InitRace /\ [][NextRace]_vars

(* C35: in every interleaving of the reads and writes of concurrent watch,      *)
(* unwatch and cleanup operations, an operation on a path leaves the entry of   *)
(* every other path as it was: it neither removes the live entry of another     *)
(* path nor brings back an entry that another process has deleted.              *)
C35_OtherPathsUntouched ==
    [][watch'.registry # watch.registry =>
          \A q \in Paths \ {watch'.event.path} : watch'.registry[q] = watch.registry[q]
      ]_vars

(* C36: once a watcher has ended through its cleanup (interrupt, SIGTERM, file *)
(* gone), the registry has no entry for its path with its pid, whatever other  *)
(* processes read and write.                                                   *)
C36_NoEntryAfterExit ==
    \A pid \in 1..MaxPid :
        watch.procs[pid].pc = "stopped" => watch.registry[watch.procs[pid].path] # pid

====
